---- MODULE Spec2Model ----
(***************************************************************************)
(* A model of the taskchampion Ruby extension (ext/taskchampion/src):      *)
(* the thread-confinement guard ThreadBound, the Operations log, the Task  *)
(* and TaskData handles and the Replica facade with its commit protocol.   *)
(*                                                                         *)
(* The storage/sync engine (the taskchampion crate) is an external         *)
(* collaborator whose source is not part of the repository; the Engine_*   *)
(* operators model it from the behavioural description of the interface.   *)
(***************************************************************************)
EXTENDS Integers, Sequences, FiniteSets, TLC

VARIABLES
    tb,         \* one ThreadBound<T>: thread_id, inner value, RefCell borrow state
    tbSeen,     \* history: a foreign-thread access on tb has failed before
    storage,    \* the engine's task store: uuid -> property map (existing tasks only)
    logs,       \* the Operations objects: log id -> [owner, ops, readers (RefCell borrows)]
    handles,    \* the Task / TaskData handles: slot -> NoHandle or [kind, owner, uuid, data]
    ann,        \* task.rs ANNOTATION_COUNTER, the process-wide AtomicU64
    flight,     \* the calls in flight on the Replica: per thread its position, and the borrow flag
    iter,       \* the each iteration in progress on a log, if any
    rec,        \* the Operation object the caller has constructed last, with its arguments
    last        \* the last call made: its name, calling thread, receiver, log and result

vars == <<tb, tbSeen, storage, logs, handles, ann, flight, iter, rec, last>>

----------------------------------------------------------------------------
(* Bounds of the model *)

\* greatest number of records a log may hold before pushes stop being explored
MaxLogLen == 2
\* greatest number of outstanding Ref borrows on the ThreadBound explored
MaxBorrows == 2
\* greatest value of ANNOTATION_COUNTER explored
MaxAnnotations == 1
\* greatest number of commit_operations calls a thread begins
MaxCalls == 2
\* greatest number of words in an engine failure's message
MaxWords == 2
\* greatest second the wall clock is read at
MaxClock == 1
\* greatest index a working set assigns
MaxIndex == 2

----------------------------------------------------------------------------
(* Universe of values *)

Threads == {"t1", "t2"}

\* the results a call can have
Ok == "ok"
ThreadError == "ThreadError"
ValidationError == "ValidationError"
StorageError == "StorageError"
ArgumentError == "ArgumentError"
TypeError == "TypeError"
RuntimeError == "RuntimeError"
Panic == "panic"

\* Option<String>::None / Ruby nil
Nil == "<nil>"

----------------------------------------------------------------------------
(* thread_check.rs: ThreadBound<T> *)

\* the values wrapped by the ThreadBound of the guard model
TBValues == {"v0", "v1"}

\* ThreadBound::new: wraps the value in a fresh RefCell and captures the
\* constructing thread
ThreadBound_new(t, v) ==
    [thread_id |-> t, inner |-> v, readers |-> 0, writer |-> FALSE, live |-> TRUE]

\* mutant of check_thread: every thread is accepted
check_thread_anyone(thread_id, caller) ==
    Ok

\* ThreadBound::check_thread: Err(ThreadError) iff the calling thread is not
\* the captured one
check_thread(thread_id, caller) ==
    IF thread_id # caller THEN ThreadError ELSE Ok

\* RefCell::borrow: panics while a RefMut is outstanding
RefCell_borrow(b) ==
    IF b.writer
    THEN [res |-> Panic, tb |-> b, value |-> Nil]
    ELSE [res |-> Ok, tb |-> [b EXCEPT !.readers = @ + 1], value |-> b.inner]

\* RefCell::borrow_mut: panics while any Ref or RefMut is outstanding
RefCell_borrow_mut(b) ==
    IF b.writer \/ b.readers > 0
    THEN [res |-> Panic, tb |-> b, value |-> Nil]
    ELSE [res |-> Ok, tb |-> [b EXCEPT !.writer = TRUE], value |-> b.inner]

\* mutant of ThreadBound_get: the borrow is taken before the thread is checked
ThreadBound_get_borrow_first(b, caller) ==
    IF check_thread(b.thread_id, caller) # Ok
    THEN [res |-> ThreadError, tb |-> RefCell_borrow(b).tb, value |-> Nil]
    ELSE RefCell_borrow(b)

\* ThreadBound::get: check_thread()?, then inner.borrow()
ThreadBound_get(b, caller) ==
    IF check_thread(b.thread_id, caller) # Ok
    THEN [res |-> ThreadError, tb |-> b, value |-> Nil]
    ELSE RefCell_borrow(b)

\* ThreadBound::get_mut: check_thread()?, then inner.borrow_mut()
ThreadBound_get_mut(b, caller) ==
    IF check_thread(b.thread_id, caller) # Ok
    THEN [res |-> ThreadError, tb |-> b, value |-> Nil]
    ELSE RefCell_borrow_mut(b)

\* ThreadBound::into_inner: takes self by value, so the guard is gone after
\* the call whatever the result; the value is returned only to the owner
ThreadBound_into_inner(b, caller) ==
    IF b.thread_id # caller
    THEN [res |-> ThreadError, tb |-> [b EXCEPT !.live = FALSE], value |-> Nil]
    ELSE [res |-> Ok, tb |-> [b EXCEPT !.live = FALSE], value |-> b.inner]

\* the record of a call: operation, calling thread, receiver, log argument,
\* result class and value returned
Call(op, t, obj, l, res, out) ==
    [op |-> op, result |-> res, out |-> out]

NoCall == Call("none", "t1", Nil, Nil, Ok, Nil)

TBCall(op, t, r) ==
    /\ tb' = r.tb
    /\ tbSeen' = (tbSeen \/ (r.res = ThreadError /\ op # "into_inner"))
    /\ last' = Call(op, t, "tb", Nil, r.res, r.value)
    /\ UNCHANGED <<storage, logs, handles, ann, flight, iter, rec>>

\* a thread calls get()
TBGet(t) ==
    /\ tb.live
    /\ tb.readers < MaxBorrows
    /\ TBCall("get", t, ThreadBound_get(tb, t))

\* a thread calls get_mut()
TBGetMut(t) ==
    /\ tb.live
    /\ TBCall("get_mut", t, ThreadBound_get_mut(tb, t))

\* the owner drops a Ref it holds
TBDropRef ==
    /\ tb.live /\ tb.readers > 0
    /\ tb' = [tb EXCEPT !.readers = @ - 1]
    /\ last' = Call("drop_ref", tb.thread_id, "tb", Nil, Ok, Nil)
    /\ UNCHANGED <<tbSeen, storage, logs, handles, ann, flight, iter, rec>>

\* the owner writes through the RefMut it holds
TBWrite(v) ==
    /\ tb.live /\ tb.writer
    /\ tb' = [tb EXCEPT !.inner = v]
    /\ last' = Call("write", tb.thread_id, "tb", Nil, Ok, Nil)
    /\ UNCHANGED <<tbSeen, storage, logs, handles, ann, flight, iter, rec>>

\* the owner drops the RefMut it holds
TBDropRefMut ==
    /\ tb.live /\ tb.writer
    /\ tb' = [tb EXCEPT !.writer = FALSE]
    /\ last' = Call("drop_ref_mut", tb.thread_id, "tb", Nil, Ok, Nil)
    /\ UNCHANGED <<tbSeen, storage, logs, handles, ann, flight, iter, rec>>

\* a thread calls into_inner(); the borrow checker allows it only while no
\* Ref or RefMut of the guard is alive
TBIntoInner(t) ==
    /\ tb.live /\ tb.readers = 0 /\ ~tb.writer
    /\ TBCall("into_inner", t, ThreadBound_into_inner(tb, t))

\* a thread constructs a new guard after the previous one was consumed
TBNew(t, v) ==
    /\ ~tb.live
    /\ tb' = ThreadBound_new(t, v)
    /\ tbSeen' = FALSE
    /\ last' = Call("new", t, "tb", Nil, Ok, Nil)
    /\ UNCHANGED <<storage, logs, handles, ann, flight, iter, rec>>

----------------------------------------------------------------------------
(* Values of the replica model *)

\* the task identifiers the model uses, in the canonical form Uuid::to_string
\* prints
Uuids == {"u1"}

\* uuid strings a caller may pass: the canonical one, the same in upper case
\* (which Uuid::parse_str accepts) and one that is no uuid
UuidInputs == {"u1", "U1", "bad"}

\* util.rs uuid2tc: Uuid::parse_str, Err(ValidationError) for a malformed string
uuid2tc(s) ==
    CASE s = "u1" -> [res |-> Ok, uuid |-> "u1"]
      [] s = "U1" -> [res |-> Ok, uuid |-> "u1"]
      [] OTHER    -> [res |-> ValidationError, uuid |-> Nil]

\* the instant Utc::now shows, in seconds since the epoch
Now == 0

\* a map with no entries (HashMap::new / an empty TaskMap)
EmptyMap == [k \in {} |-> Nil]

MapGet(m, k) == IF k \in DOMAIN m THEN m[k] ELSE Nil

MapSet(m, k, v) == [x \in (DOMAIN m) \cup {k} |-> IF x = k THEN v ELSE m[x]]

MapRemove(m, k) == [x \in (DOMAIN m) \ {k} |-> m[x]]

\* insert for Some(v), remove for None
MapUpdate(m, k, v) == IF v = Nil THEN MapRemove(m, k) ELSE MapSet(m, k, v)

\* taskchampion::Operation, the four variants in one record shape
OpCreate(u) ==
    [type |-> "Create", uuid |-> u, property |-> Nil, timestamp |-> Nil,
     old_value |-> Nil, value |-> Nil, old_task |-> EmptyMap]

OpDelete(u, old) ==
    [type |-> "Delete", uuid |-> u, property |-> Nil, timestamp |-> Nil,
     old_value |-> Nil, value |-> Nil, old_task |-> old]

OpUpdate(u, p, ts, old, v) ==
    [type |-> "Update", uuid |-> u, property |-> p, timestamp |-> ts,
     old_value |-> old, value |-> v, old_task |-> EmptyMap]

OpUndoPoint ==
    [type |-> "UndoPoint", uuid |-> Nil, property |-> Nil, timestamp |-> Nil,
     old_value |-> Nil, value |-> Nil, old_task |-> EmptyMap]

\* no call is in flight on the Replica and its RefCell is not borrowed
NoFlight ==
    [pc |-> [t \in Threads |-> "idle"], flag |-> [t \in Threads |-> FALSE],
     todo |-> [t \in Threads |-> <<>>], calls |-> [t \in Threads |-> 0],
     writer |-> FALSE, applied |-> <<>>]

\* no each iteration is in progress
NoIter == [active |-> FALSE, start |-> <<>>, seen |-> <<>>, raised |-> FALSE]

\* the caller holds no Operation object
NoRec == [op |-> [type |-> "none"], args |-> [uuid |-> Nil]]

----------------------------------------------------------------------------
(* The storage engine (taskchampion crate), from its interface description *)

\* one record applied to the task store
Engine_apply_op(st, op) ==
    CASE op.type = "Create" ->
            IF op.uuid \in DOMAIN st THEN st ELSE MapSet(st, op.uuid, EmptyMap)
      [] op.type = "Delete" -> MapRemove(st, op.uuid)
      [] op.type = "Update" ->
            IF op.uuid \in DOMAIN st
            THEN MapSet(st, op.uuid, MapUpdate(st[op.uuid], op.property, op.value))
            ELSE st
      [] OTHER -> st

\* the engine's transaction: the records are applied first to last to a
\* working copy, which replaces the store only if no fault occurs
RECURSIVE Engine_apply_all(_, _)
Engine_apply_all(st, ops) ==
    IF ops = <<>> THEN st
    ELSE Engine_apply_all(Engine_apply_op(st, Head(ops)), Tail(ops))

\* Replica::commit_operations of the engine: all records or none
Engine_commit_operations(st, ops, fault) ==
    IF fault
    THEN [res |-> "Err", msg |-> "database is locked", st |-> st]
    ELSE [res |-> Ok, msg |-> Nil, st |-> Engine_apply_all(st, ops)]

\* Replica::create_task of the engine: fails for an existing uuid, otherwise
\* pushes a Create record and returns an empty task
Engine_create_task(st, u) ==
    IF u \in DOMAIN st
    THEN [res |-> "Err", msg |-> "task already exists", ops |-> <<>>, data |-> EmptyMap]
    ELSE [res |-> Ok, msg |-> Nil, ops |-> <<OpCreate(u)>>, data |-> EmptyMap]

\* Replica::get_task of the engine
Engine_get_task(st, u) ==
    IF u \in DOMAIN st THEN [found |-> TRUE, data |-> st[u]]
    ELSE [found |-> FALSE, data |-> EmptyMap]

\* TaskData::update / Task::set_value of the engine: the snapshot takes the
\* new value and one Update record with the previous value is pushed
Engine_update(data, u, p, v, ops) ==
    [data |-> MapUpdate(data, p, v),
     ops |-> Append(ops, OpUpdate(u, p, Now, MapGet(data, p), v))]

----------------------------------------------------------------------------
(* error.rs, util.rs *)

\* str::contains
Contains(s, kw) ==
    \E i \in 1..(Len(s) - Len(kw) + 1) : SubSeq(s, i, i + Len(kw) - 1) = kw

\* mutant of map_taskchampion_error: the keywords are "permission" in lower
\* case and no "remote", "validation", "No such file" or "Permission denied"
map_taskchampion_error_short(msg) ==
    IF \/ Contains(msg, "permission")
       \/ Contains(msg, "storage") \/ Contains(msg, "database")
    THEN StorageError
    ELSE IF \/ Contains(msg, "sync") \/ Contains(msg, "server")
            \/ Contains(msg, "network")
    THEN "SyncError"
    ELSE IF Contains(msg, "config")
    THEN "ConfigError"
    ELSE IF \/ Contains(msg, "invalid") \/ Contains(msg, "parse")
            \/ Contains(msg, "format")
    THEN ValidationError
    ELSE "Error"

\* mutant of map_taskchampion_error: the validation branch is tried before
\* the configuration branch
map_taskchampion_error_reordered(msg) ==
    IF \/ Contains(msg, "No such file") \/ Contains(msg, "Permission denied")
       \/ Contains(msg, "storage") \/ Contains(msg, "database")
    THEN StorageError
    ELSE IF \/ Contains(msg, "sync") \/ Contains(msg, "server")
            \/ Contains(msg, "network") \/ Contains(msg, "remote")
    THEN "SyncError"
    ELSE IF \/ Contains(msg, "invalid") \/ Contains(msg, "parse")
            \/ Contains(msg, "format") \/ Contains(msg, "validation")
    THEN ValidationError
    ELSE IF Contains(msg, "config") \/ Contains(msg, "invalid config")
    THEN "ConfigError"
    ELSE "Error"

\* error.rs map_taskchampion_error: the class of an engine failure, by the
\* keywords its message contains, in branch order
map_taskchampion_error(msg) ==
    IF \/ Contains(msg, "No such file") \/ Contains(msg, "Permission denied")
       \/ Contains(msg, "storage") \/ Contains(msg, "database")
    THEN StorageError
    ELSE IF \/ Contains(msg, "sync") \/ Contains(msg, "server")
            \/ Contains(msg, "network") \/ Contains(msg, "remote")
    THEN "SyncError"
    ELSE IF Contains(msg, "config") \/ Contains(msg, "invalid config")
    THEN "ConfigError"
    ELSE IF \/ Contains(msg, "invalid") \/ Contains(msg, "parse")
            \/ Contains(msg, "format") \/ Contains(msg, "validation")
    THEN ValidationError
    ELSE "Error"

\* util.rs into_error
into_error(msg) == map_taskchampion_error(msg)

\* the characters str::trim removes that the inputs of the model use
Whitespace == {" ", "\t", "\n"}

\* s.trim().is_empty()
TrimIsEmpty(s) == \A i \in 1..Len(s) : SubSeq(s, i, i) \in Whitespace

----------------------------------------------------------------------------
(* operations.rs: Operations(ThreadBound<RefCell<TCOperations>>) *)

Logs == {"l1"}

\* mutant of Operations_clone_inner: the records are taken out of the log
\* (std::mem::take) instead of cloned
Operations_clone_inner_take(log, caller) ==
    IF check_thread(log.owner, caller) # Ok
    THEN [res |-> ThreadError, ops |-> <<>>, log |-> log]
    ELSE [res |-> Ok, ops |-> log.ops, log |-> [log EXCEPT !.ops = <<>>]]

\* mutant of Operations_clone_inner: the clone loses the push order
Operations_clone_inner_reversed(log, caller) ==
    IF check_thread(log.owner, caller) # Ok
    THEN [res |-> ThreadError, ops |-> <<>>, log |-> log]
    ELSE [res |-> Ok,
          ops |-> [i \in 1..Len(log.ops) |-> log.ops[Len(log.ops) + 1 - i]],
          log |-> log]

\* Operations::clone_inner: get()?, then a clone of the records; the log
\* itself is only read
Operations_clone_inner(log, caller) ==
    IF check_thread(log.owner, caller) # Ok
    THEN [res |-> ThreadError, ops |-> <<>>, log |-> log]
    ELSE [res |-> Ok, ops |-> log.ops, log |-> log]

\* ops.borrow_mut() on the log's RefCell: panics while a Ref of it is alive,
\* which is the case during an each iteration with a block
Log_borrow_mut(log) == IF log.readers > 0 THEN Panic ELSE Ok

\* Operations::extend_from_tc: get()?, borrow_mut(), then every record is
\* pushed in order
Operations_extend_from_tc(log, caller, tc_ops) ==
    IF check_thread(log.owner, caller) # Ok
    THEN [res |-> ThreadError, log |-> log]
    ELSE IF Log_borrow_mut(log) # Ok
    THEN [res |-> Panic, log |-> log]
    ELSE [res |-> Ok, log |-> [log EXCEPT !.ops = @ \o tc_ops]]

\* mutant of Operations_push: the record is put in front of the others
Operations_push_front(log, caller, op) ==
    IF check_thread(log.owner, caller) # Ok
    THEN [res |-> ThreadError, log |-> log]
    ELSE IF Log_borrow_mut(log) # Ok
    THEN [res |-> Panic, log |-> log]
    ELSE [res |-> Ok, log |-> [log EXCEPT !.ops = <<op>> \o @]]

\* mutant of Operations_push: the records are reached without the RefCell's
\* borrow check
Operations_push_unborrowed(log, caller, op) ==
    IF check_thread(log.owner, caller) # Ok
    THEN [res |-> ThreadError, log |-> log]
    ELSE [res |-> Ok, log |-> [log EXCEPT !.ops = Append(@, op)]]

\* Operations::push: get()?, borrow_mut(), then the record is pushed
Operations_push(log, caller, op) ==
    IF check_thread(log.owner, caller) # Ok
    THEN [res |-> ThreadError, log |-> log]
    ELSE IF Log_borrow_mut(log) # Ok
    THEN [res |-> Panic, log |-> log]
    ELSE [res |-> Ok, log |-> [log EXCEPT !.ops = Append(@, op)]]

\* mutant of Operations_clear: only the last record is dropped
Operations_clear_last(log, caller) ==
    IF check_thread(log.owner, caller) # Ok
    THEN [res |-> ThreadError, log |-> log]
    ELSE IF Log_borrow_mut(log) # Ok
    THEN [res |-> Panic, log |-> log]
    ELSE [res |-> Ok,
          log |-> [log EXCEPT !.ops = IF @ = <<>> THEN @ ELSE SubSeq(@, 1, Len(@) - 1)]]

\* Operations::clear: get()?, borrow_mut(), then the records are dropped
Operations_clear(log, caller) ==
    IF check_thread(log.owner, caller) # Ok
    THEN [res |-> ThreadError, log |-> log]
    ELSE IF Log_borrow_mut(log) # Ok
    THEN [res |-> Panic, log |-> log]
    ELSE [res |-> Ok, log |-> [log EXCEPT !.ops = <<>>]]

\* Operations::len: get()?, borrow(), the number of records
Operations_len(log, caller) ==
    IF check_thread(log.owner, caller) # Ok
    THEN [res |-> ThreadError, out |-> 0]
    ELSE [res |-> Ok, out |-> Len(log.ops)]

\* Operations::empty (empty?)
Operations_empty(log, caller) ==
    IF check_thread(log.owner, caller) # Ok
    THEN [res |-> ThreadError, out |-> FALSE]
    ELSE [res |-> Ok, out |-> log.ops = <<>>]

\* mutant of Operations_to_array: the array is filled from the last record
\* to the first
Operations_to_array_reversed(log, caller) ==
    IF check_thread(log.owner, caller) # Ok
    THEN [res |-> ThreadError, out |-> <<>>]
    ELSE [res |-> Ok,
          out |-> [i \in 1..Len(log.ops) |-> log.ops[Len(log.ops) + 1 - i]]]

\* Operations::to_array (to_a, and each without a block): get()?, borrow(),
\* every record pushed to a new array in the order of the Vec
Operations_to_array(log, caller) ==
    IF check_thread(log.owner, caller) # Ok
    THEN [res |-> ThreadError, out |-> <<>>]
    ELSE [res |-> Ok, out |-> log.ops]

\* mutant of with_inner_mut: the closure runs on a clone of the records, so
\* the caller's log never receives them
with_inner_mut_on_clone(log, caller, new_ops) ==
    IF check_thread(log.owner, caller) # Ok
    THEN [res |-> ThreadError, ran |-> FALSE, log |-> log]
    ELSE [res |-> Ok, ran |-> TRUE, log |-> log]

\* Operations::with_inner_mut: get()?, borrow_mut(), then the closure runs on the log's own
\* records; new_ops is what the closure leaves in them.  ran tells whether
\* the closure (and with it the engine's change of the handle) was executed
with_inner_mut(log, caller, new_ops) ==
    IF check_thread(log.owner, caller) # Ok
    THEN [res |-> ThreadError, ran |-> FALSE, log |-> log]
    ELSE IF Log_borrow_mut(log) # Ok
    THEN [res |-> Panic, ran |-> FALSE, log |-> log]
    ELSE [res |-> Ok, ran |-> TRUE, log |-> [log EXCEPT !.ops = new_ops]]

----------------------------------------------------------------------------
(* task.rs: Task(ThreadBound<TCTask>) *)

Handles == {"h1", "h2"}

NoHandle == [kind |-> "none", owner |-> Nil, uuid |-> Nil, data |-> EmptyMap]

\* Task::from_tc_task: the engine's task wrapped in a ThreadBound of the
\* calling thread
Task_from_tc_task(caller, u, data) ==
    [kind |-> "Task", owner |-> caller, uuid |-> u, data |-> data]

\* the outcome of a mutator: result class, handle and log after the call
Outcome(res, hd, log) == [res |-> res, handle |-> hd, log |-> log]

\* mutant of Task_write: the engine's setter runs on the handle before the
\* log is asked for
Task_write_before_log(hd, caller, log, p, v) ==
    IF check_thread(hd.owner, caller) # Ok
    THEN Outcome(ThreadError, hd, log)
    ELSE LET e == Engine_update(hd.data, hd.uuid, p, v, log.ops)
             w == with_inner_mut(log, caller, e.ops)
         IN  Outcome(w.res, [hd EXCEPT !.data = e.data], w.log)

\* the tail shared by the mutators:
\*   let mut task = self.0.get_mut()?;
\*   operations.with_inner_mut(|ops| task.set_value(p, v, ops))?;
Task_write(hd, caller, log, p, v) ==
    IF check_thread(hd.owner, caller) # Ok
    THEN Outcome(ThreadError, hd, log)
    ELSE LET e == Engine_update(hd.data, hd.uuid, p, v, log.ops)
             w == with_inner_mut(log, caller, e.ops)
         IN  Outcome(w.res, IF w.ran THEN [hd EXCEPT !.data = e.data] ELSE hd, w.log)

\* mutant of Task_set_description: the description is not validated
Task_set_description_unvalidated(hd, caller, description, log) ==
    Task_write(hd, caller, log, "description", description)

\* mutant of Task_set_description: the trimmed description is stored
Task_set_description_trimmed(hd, caller, description, log) ==
    IF TrimIsEmpty(description)
    THEN Outcome(ValidationError, hd, log)
    ELSE Task_write(hd, caller, log, "description",
                    IF SubSeq(description, 1, 1) \in Whitespace
                    THEN SubSeq(description, 2, Len(description))
                    ELSE description)

\* Task::set_description
Task_set_description(hd, caller, description, log) ==
    IF TrimIsEmpty(description)
    THEN Outcome(ValidationError, hd, log)
    ELSE Task_write(hd, caller, log, "description", description)

\* Task::description: the engine's get_description, "" when unset
Task_description(hd) ==
    IF "description" \in DOMAIN hd.data THEN hd.data["description"] ELSE ""

\* Ruby values, for the parameters and results typed magnus::Value: the
\* class and what to_s prints
RNil == [class |-> "NilClass", str |-> ""]

RString(s) == [class |-> "String", str |-> s]

RInteger(s) == [class |-> "Integer", str |-> s]

\* Value::is_nil
is_nil(v) == v.class = "NilClass"

\* Value::to_string (rb_obj_as_string): a String is itself, any other object
\* is replaced by what its to_s prints
Value_to_string(v) == v.str

\* Option<String>::into_value: nil for None, a String for Some
option_into_value(o) == IF o = Nil THEN RNil ELSE RString(o)

\* Ruby values passed where the method takes any Value
ValueInputs == {RNil, RString("a"), RInteger("7")}

\* Task::set_value
Task_set_value(hd, caller, property, value, log) ==
    IF TrimIsEmpty(property)
    THEN Outcome(ValidationError, hd, log)
    ELSE IF check_thread(hd.owner, caller) # Ok
    THEN Outcome(ThreadError, hd, log)
    ELSE LET value_str == IF is_nil(value) THEN Nil ELSE Value_to_string(value)
         IN  Task_write(hd, caller, log, property, value_str)

\* Task::get_value
Task_get_value(hd, property) == option_into_value(MapGet(hd.data, property))

\* Ruby Symbols and Taskchampion::Status objects, as Ruby values
RSymbol(s) == [class |-> "Symbol", str |-> s]

RStatus(s) == [class |-> "Taskchampion::Status", str |-> s]

\* status.rs: the names of StatusKind
StatusNames == {"pending", "completed", "deleted", "recurring", "unknown"}

\* Status::from_symbol
Status_from_symbol(sym) ==
    IF sym.str \in StatusNames
    THEN [res |-> Ok, status |-> sym.str]
    ELSE [res |-> ValidationError, status |-> Nil]

\* From<Status> for TCStatus, and the string the engine stores for it
Status_into_tc(status) ==
    IF status = "unknown" THEN "unknown status" ELSE status

\* From<TCStatus> for Status, from the stored string
Status_from_tc(stored) ==
    IF stored \in {"pending", "completed", "deleted", "recurring"}
    THEN stored ELSE "unknown"

\* Task::set_status: get_mut()?, then a Status object or a Symbol is
\* accepted, anything else is a ValidationError
Task_set_status(hd, caller, status, log) ==
    IF check_thread(hd.owner, caller) # Ok
    THEN Outcome(ThreadError, hd, log)
    ELSE IF status.class = "Taskchampion::Status"
    THEN Task_write(hd, caller, log, "status", Status_into_tc(status.str))
    ELSE IF status.class = "Symbol"
    THEN IF Status_from_symbol(status).res # Ok
         THEN Outcome(ValidationError, hd, log)
         ELSE Task_write(hd, caller, log, "status",
                         Status_into_tc(Status_from_symbol(status).status))
    ELSE Outcome(ValidationError, hd, log)

\* Task::status: the engine's get_status (pending when unset) as a Symbol
Task_status(hd) ==
    IF "status" \in DOMAIN hd.data
    THEN RSymbol(Status_from_tc(hd.data["status"]))
    ELSE RSymbol("pending")

\* Task::set_priority
Task_set_priority(hd, caller, priority, log) ==
    IF TrimIsEmpty(priority)
    THEN Outcome(ValidationError, hd, log)
    ELSE Task_write(hd, caller, log, "priority", priority)

\* Task::priority: the engine's get_priority, "" when unset
Task_priority(hd) ==
    IF "priority" \in DOMAIN hd.data THEN hd.data["priority"] ELSE ""

\* the property key the engine keeps a tag under
TagKey(tag) == "tag_" \o tag

\* Task::add_tag; tag is a Taskchampion::Tag already validated by Tag.new
Task_add_tag(hd, caller, tag, log) ==
    Task_write(hd, caller, log, TagKey(tag), "")

\* Task::has_tag
Task_has_tag(hd, tag) == TagKey(tag) \in DOMAIN hd.data

\* decimal digits of the instants the model uses (i64::to_string)
IntToString(n) ==
    CASE n = 0 -> "0" [] n = 1 -> "1" [] n = 2 -> "2" [] n = 3 -> "3"
      [] n = 4 -> "4" [] OTHER -> "5"

\* util.rs ruby_to_datetime, on the Ruby values the model passes: a String
\* is parsed as RFC 3339 (then as "%Y-%m-%d %H:%M:%S %z"), any other object
\* needs an iso8601 method; the result is the instant in seconds
ruby_to_datetime(value) ==
    CASE value = RString("1970-01-01T00:00:01Z") -> [res |-> Ok, some |-> TRUE, dt |-> 1]
      [] value = RString("1970-01-01 00:00:01 +0000") -> [res |-> Ok, some |-> TRUE, dt |-> 1]
      [] OTHER -> [res |-> ValidationError, some |-> FALSE, dt |-> 0]

\* util.rs ruby_to_option: nil is None, anything else goes to the converter
ruby_to_option_datetime(value) ==
    IF is_nil(value) THEN [res |-> Ok, some |-> FALSE, dt |-> 0]
    ELSE ruby_to_datetime(value)

\* Ruby values passed as timestamps
DateInputs ==
    {RNil, RString("1970-01-01T00:00:01Z"), RString("1970-01-01 00:00:01 +0000"),
     RString("tomorrow"), RInteger("7")}

\* the string the engine stores for an Option<DateTime>
TimestampString(o) == IF o.some THEN IntToString(o.dt) ELSE Nil

\* Task::set_due: get_mut()?, ruby_to_option(due, ruby_to_datetime)?, write
Task_set_due(hd, caller, due, log) ==
    IF check_thread(hd.owner, caller) # Ok
    THEN Outcome(ThreadError, hd, log)
    ELSE IF ruby_to_option_datetime(due).res # Ok
    THEN Outcome(ValidationError, hd, log)
    ELSE Task_write(hd, caller, log, "due",
                    TimestampString(ruby_to_option_datetime(due)))

\* Task::set_entry
Task_set_entry(hd, caller, entry, log) ==
    IF check_thread(hd.owner, caller) # Ok
    THEN Outcome(ThreadError, hd, log)
    ELSE IF ruby_to_option_datetime(entry).res # Ok
    THEN Outcome(ValidationError, hd, log)
    ELSE Task_write(hd, caller, log, "entry",
                    TimestampString(ruby_to_option_datetime(entry)))

\* Task::set_timestamp: the property name is validated, then get_mut()?,
\* then the timestamp is converted
Task_set_timestamp(hd, caller, property, timestamp, log) ==
    IF TrimIsEmpty(property)
    THEN Outcome(ValidationError, hd, log)
    ELSE IF check_thread(hd.owner, caller) # Ok
    THEN Outcome(ThreadError, hd, log)
    ELSE IF ruby_to_option_datetime(timestamp).res # Ok
    THEN Outcome(ValidationError, hd, log)
    ELSE Task_write(hd, caller, log, property,
                    TimestampString(ruby_to_option_datetime(timestamp)))

\* the property key the engine keeps a user-defined attribute under
UdaKey(namespace, key) == namespace \o "." \o key

\* Task::set_uda
Task_set_uda(hd, caller, namespace, key, value, log) ==
    IF TrimIsEmpty(namespace)
    THEN Outcome(ValidationError, hd, log)
    ELSE IF TrimIsEmpty(key)
    THEN Outcome(ValidationError, hd, log)
    ELSE Task_write(hd, caller, log, UdaKey(namespace, key), value)

\* Task::delete_uda
Task_delete_uda(hd, caller, namespace, key, log) ==
    IF TrimIsEmpty(namespace)
    THEN Outcome(ValidationError, hd, log)
    ELSE IF TrimIsEmpty(key)
    THEN Outcome(ValidationError, hd, log)
    ELSE Task_write(hd, caller, log, UdaKey(namespace, key), Nil)

\* Task::get_uda
Task_get_uda(hd, namespace, key) ==
    option_into_value(MapGet(hd.data, UdaKey(namespace, key)))

\* the property key the engine keeps an annotation under
AnnotationKey(entry) == "annotation_" \o IntToString(entry)

\* Task::add_annotation: the text is validated, get_mut()?, then the
\* process-wide ANNOTATION_COUNTER is incremented (fetch_add) and the entry is
\* Utc::now plus that many seconds.  counter is the value fetch_add returned
Task_add_annotation(hd, caller, description, counter, log) ==
    IF TrimIsEmpty(description)
    THEN Outcome(ValidationError, hd, log)
    ELSE Task_write(hd, caller, log, AnnotationKey(Now + counter), description)

\* Task::add_annotation when Utc::now() reads base_time, the second the wall
\* clock of the system shows at the call: the wall clock is set by the system
\* and by its operator and may show an earlier second at a later call
Task_add_annotation_at(hd, caller, description, counter, base_time, log) ==
    IF TrimIsEmpty(description)
    THEN Outcome(ValidationError, hd, log)
    ELSE Task_write(hd, caller, log, AnnotationKey(base_time + counter), description)

\* whether add_annotation reaches the fetch_add of ANNOTATION_COUNTER
Task_add_annotation_counts(hd, caller, description) ==
    ~TrimIsEmpty(description) /\ check_thread(hd.owner, caller) = Ok

----------------------------------------------------------------------------
(* task_data.rs: TaskData(ThreadBound<TCTaskData>) *)

\* TaskData::from_tc_task_data / the ThreadBound::new of create_task_data
TaskData_from_tc_task_data(caller, u, data) ==
    [kind |-> "TaskData", owner |-> caller, uuid |-> u, data |-> data]

\* TaskData::update
TaskData_update(hd, caller, property, value, log) ==
    IF TrimIsEmpty(property)
    THEN Outcome(ValidationError, hd, log)
    ELSE IF check_thread(hd.owner, caller) # Ok
    THEN Outcome(ThreadError, hd, log)
    ELSE LET value_str == IF is_nil(value) THEN Nil ELSE Value_to_string(value)
         IN  Task_write(hd, caller, log, property, value_str)

\* TaskData::get
TaskData_get(hd, property) == option_into_value(MapGet(hd.data, property))

\* create_task_data (TaskData.create): uuid2tc(..)?, the engine's
\* TaskData::create pushes a Create record, extend_from_tc(..)?
create_task_data(caller, uuid, log) ==
    IF uuid2tc(uuid).res # Ok
    THEN Outcome(ValidationError, NoHandle, log)
    ELSE LET x == Operations_extend_from_tc(log, caller, <<OpCreate(uuid2tc(uuid).uuid)>>)
         IN  IF x.res # Ok
             THEN Outcome(x.res, NoHandle, log)
             ELSE Outcome(Ok, TaskData_from_tc_task_data(caller, uuid2tc(uuid).uuid, EmptyMap),
                          x.log)

----------------------------------------------------------------------------
(* replica.rs: Replica(ThreadBound<TCReplica>) *)

\* the thread that constructed the Replica (Replica.new_in_memory)
ReplicaThread == "t1"

\* mutant of Replica_create_task: the Create record is appended before the
\* engine is asked, whatever it answers
Replica_create_task_push_first(st, caller, uuid, log) ==
    IF check_thread(ReplicaThread, caller) # Ok
    THEN [res |-> ThreadError, handle |-> NoHandle, log |-> log]
    ELSE IF uuid2tc(uuid).res # Ok
    THEN [res |-> ValidationError, handle |-> NoHandle, log |-> log]
    ELSE LET tc_uuid == uuid2tc(uuid).uuid
             e == Engine_create_task(st, tc_uuid)
             x == Operations_extend_from_tc(log, caller, <<OpCreate(tc_uuid)>>)
         IN  IF e.res # Ok
             THEN [res |-> into_error(e.msg), handle |-> NoHandle, log |-> x.log]
             ELSE [res |-> Ok,
                   handle |-> Task_from_tc_task(caller, tc_uuid, e.data),
                   log |-> x.log]

\* Replica::create_task.  The Result of extend_from_tc is dropped (no `?`),
\* so the handle is returned whether or not the Create record was appended
Replica_create_task(st, caller, uuid, log) ==
    IF check_thread(ReplicaThread, caller) # Ok
    THEN [res |-> ThreadError, handle |-> NoHandle, log |-> log]
    ELSE IF uuid2tc(uuid).res # Ok
    THEN [res |-> ValidationError, handle |-> NoHandle, log |-> log]
    ELSE LET tc_uuid == uuid2tc(uuid).uuid
             e == Engine_create_task(st, tc_uuid)
         IN  IF e.res # Ok
             THEN [res |-> into_error(e.msg), handle |-> NoHandle, log |-> log]
             ELSE [res |-> Ok,
                   handle |-> Task_from_tc_task(caller, tc_uuid, e.data),
                   log |-> Operations_extend_from_tc(log, caller, e.ops).log]

\* mutant of Replica_commit_operations: the engine's error is dropped and the
\* records are applied outside the engine's transaction
Replica_commit_operations_no_txn(st, caller, log, fault) ==
    IF check_thread(ReplicaThread, caller) # Ok
    THEN [res |-> ThreadError, st |-> st, log |-> log]
    ELSE LET c == Operations_clone_inner(log, caller)
         IN  IF c.res # Ok
             THEN [res |-> c.res, st |-> st, log |-> c.log]
             ELSE LET e == Engine_commit_operations(st, c.ops, fault)
                  IN  [res |-> IF e.res = Ok THEN Ok ELSE into_error(e.msg),
                       st |-> Engine_apply_all(st, c.ops), log |-> c.log]

\* Replica::commit_operations: get_mut()?, clone_inner, then the engine's
\* commit, whose error is mapped by into_error.  clone_inner's Result has to
\* be Ok for the engine to receive the records; its Err (a log confined to
\* another thread) ends the call
Replica_commit_operations(st, caller, log, fault) ==
    IF check_thread(ReplicaThread, caller) # Ok
    THEN [res |-> ThreadError, st |-> st, log |-> log]
    ELSE LET c == Operations_clone_inner(log, caller)
         IN  IF c.res # Ok
             THEN [res |-> c.res, st |-> st, log |-> c.log]
             ELSE LET e == Engine_commit_operations(st, c.ops, fault)
                  IN  [res |-> IF e.res = Ok THEN Ok ELSE into_error(e.msg),
                       st |-> e.st, log |-> c.log]

\* Replica::task: get_mut()?, uuid2tc(..)?, the engine's get_task, nil or a
\* new Task handle
Replica_task(st, caller, uuid) ==
    IF check_thread(ReplicaThread, caller) # Ok
    THEN [res |-> ThreadError, handle |-> NoHandle]
    ELSE IF uuid2tc(uuid).res # Ok
    THEN [res |-> ValidationError, handle |-> NoHandle]
    ELSE LET g == Engine_get_task(st, uuid2tc(uuid).uuid)
         IN  [res |-> Ok,
              handle |-> IF g.found
                         THEN Task_from_tc_task(caller, uuid2tc(uuid).uuid, g.data)
                         ELSE NoHandle]

\* Replica::task_data: get_mut()?, uuid2tc(uuid)?, the engine's get_task_data;
\* the closure given to option_to_ruby turns whatever was found into nil
Replica_task_data(st, caller, uuid) ==
    IF check_thread(ReplicaThread, caller) # Ok
    THEN [res |-> ThreadError, out |-> RNil]
    ELSE IF uuid2tc(uuid).res # Ok
    THEN [res |-> ValidationError, out |-> RNil]
    ELSE [res |-> Ok,
          out |-> IF Engine_get_task(st, uuid2tc(uuid).uuid).found
                  THEN RNil ELSE RNil]

\* Replica::task_uuids: the uuids of the engine's all_task_uuids, as strings
Replica_task_uuids(st, caller) ==
    IF check_thread(ReplicaThread, caller) # Ok
    THEN [res |-> ThreadError, out |-> {}]
    ELSE [res |-> Ok, out |-> DOMAIN st]

\* Replica::tasks: a hash from uuid string to a new Task handle
Replica_tasks(st, caller) ==
    IF check_thread(ReplicaThread, caller) # Ok
    THEN [res |-> ThreadError, out |-> EmptyMap]
    ELSE [res |-> Ok,
          out |-> [u \in DOMAIN st |-> Task_from_tc_task(caller, u, st[u])]]

----------------------------------------------------------------------------
(* Actions of the replica model *)

\* replica.create_task(uuid, log), the handle kept in slot h
CreateTask(t, uuid, l, h) ==
    LET r == Replica_create_task(storage, t, uuid, logs[l])
    IN  /\ Len(logs[l].ops) < MaxLogLen
        /\ logs' = [logs EXCEPT ![l] = r.log]
        /\ handles' = IF r.res = Ok THEN [handles EXCEPT ![h] = r.handle] ELSE handles
        /\ last' = Call("create_task", t, h, l, r.res, Nil)
        /\ UNCHANGED <<tb, tbSeen, storage, ann, flight, iter, rec>>

\* replica.commit_operations(log); fault: the backend fails during the commit
CommitOperations(t, l, fault) ==
    LET r == Replica_commit_operations(storage, t, logs[l], fault)
    IN  /\ storage' = r.st
        /\ logs' = [logs EXCEPT ![l] = r.log]
        /\ last' = Call("commit_operations", t, "replica", l, r.res, Nil)
        /\ UNCHANGED <<tb, tbSeen, handles, ann, flight, iter, rec>>

\* replica.task(uuid), the handle (if any) kept in slot h
GetTask(t, uuid, h) ==
    LET r == Replica_task(storage, t, uuid)
    IN  /\ handles' = IF r.res = Ok /\ r.handle # NoHandle
                      THEN [handles EXCEPT ![h] = r.handle] ELSE handles
        /\ last' = Call("task", t, h, Nil, r.res, Nil)
        /\ UNCHANGED <<tb, tbSeen, storage, logs, ann, flight, iter, rec>>

\* replica.task_uuids
TaskUuids(t) ==
    LET r == Replica_task_uuids(storage, t)
    IN  /\ last' = Call("task_uuids", t, "replica", Nil, r.res, Nil)
        /\ UNCHANGED <<tb, tbSeen, storage, logs, handles, ann, flight, iter, rec>>

\* mutant of Tasks: listing the tasks empties the caller's logs
Tasks_draining(t) ==
    LET r == Replica_tasks(storage, t)
    IN  /\ last' = Call("tasks", t, "replica", Nil, r.res, Nil)
        /\ logs' = [l \in Logs |-> [logs[l] EXCEPT !.ops = <<>>]]
        /\ UNCHANGED <<tb, tbSeen, storage, handles, ann, flight, iter, rec>>

\* replica.tasks
Tasks(t) ==
    LET r == Replica_tasks(storage, t)
    IN  /\ last' = Call("tasks", t, "replica", Nil, r.res, Nil)
        /\ UNCHANGED <<tb, tbSeen, storage, logs, handles, ann, flight, iter, rec>>

\* replica.task_data(uuid)
GetTaskData(t, uuid) ==
    LET r == Replica_task_data(storage, t, uuid)
    IN  /\ last' = Call("task_data", t, "replica", Nil, r.res, r.out)
        /\ UNCHANGED <<tb, tbSeen, storage, logs, handles, ann, flight, iter, rec>>

\* mutant of Mutate: the records of the log reach the store with the mutation
Mutate_write_through(op, t, h, l, r) ==
    /\ Len(logs[l].ops) < MaxLogLen
    /\ handles' = [handles EXCEPT ![h] = r.handle]
    /\ logs' = [logs EXCEPT ![l] = r.log]
    /\ last' = Call(op, t, h, l, r.res, Nil)
    /\ storage' = Engine_apply_all(storage, r.log.ops)
    /\ UNCHANGED <<tb, tbSeen, flight, iter, rec>>

\* a mutator of the handle in slot h was called with log l and had outcome r
Mutate(op, t, h, l, r) ==
    /\ Len(logs[l].ops) < MaxLogLen
    /\ handles' = [handles EXCEPT ![h] = r.handle]
    /\ logs' = [logs EXCEPT ![l] = r.log]
    /\ last' = Call(op, t, h, l, r.res, Nil)
    /\ UNCHANGED <<tb, tbSeen, storage, flight, iter, rec>>

IsTask(h) == handles[h].kind = "Task"

IsTaskData(h) == handles[h].kind = "TaskData"

\* a Ruby Array, by its members, and a Ruby true or false
RArray(items) == [class |-> "Array", items |-> items]

RBool(b) == [class |-> IF b THEN "TrueClass" ELSE "FalseClass", str |-> ""]

\* the keys of a snapshot that begin with prefix (the engine keeps tags,
\* annotations and dependencies under prefixed property keys)
KeysWith(data, prefix) ==
    {k \in DOMAIN data :
        Len(k) >= Len(prefix) /\ SubSeq(k, 1, Len(prefix)) = prefix}

\* the read-only accessors of task.rs: each is self.0.get()? followed by a
\* read of the engine's task; blocked? and blocking? are about other tasks,
\* of which the replica of the model has none
Task_read(hd, caller, name, arg) ==
    IF check_thread(hd.owner, caller) # Ok
    THEN [res |-> ThreadError, out |-> RNil]
    ELSE [res |-> Ok,
          out |-> CASE name = "status" -> Task_status(hd)
                    [] name = "tags" -> RArray(KeysWith(hd.data, "tag_"))
                    [] name = "annotations" ->
                           RArray(KeysWith(hd.data, "annotation_"))
                    [] name = "dependencies" ->
                           RArray(KeysWith(hd.data, "dep_"))
                    [] name = "get_value" -> Task_get_value(hd, arg)
                    [] name = "get_uda" -> Task_get_uda(hd, arg, arg)
                    [] name = "waiting?" -> RBool("wait" \in DOMAIN hd.data)
                    [] name = "active?" -> RBool("start" \in DOMAIN hd.data)
                    [] OTHER -> RBool(FALSE)]

\* the read-only accessors a caller may name
ReadNames ==
    {"status", "tags", "annotations", "dependencies", "get_value", "get_uda",
     "waiting?", "active?", "blocked?", "blocking?"}

\* mutant of ReadTask: reading fills the status of the snapshot in
ReadTask_filling(t, h, name, arg) ==
    /\ IsTask(h)
    /\ last' = Call(name, t, h, Nil, Task_read(handles[h], t, name, arg).res,
                    Task_read(handles[h], t, name, arg).out)
    /\ handles' = [handles EXCEPT ![h].data = MapSet(@, "status", "pending")]
    /\ UNCHANGED <<tb, tbSeen, storage, logs, ann, flight, iter, rec>>

\* task.status, task.tags, ... task.blocking?: a read-only accessor is called
ReadTask(t, h, name, arg) ==
    /\ IsTask(h)
    /\ last' = Call(name, t, h, Nil, Task_read(handles[h], t, name, arg).res,
                    Task_read(handles[h], t, name, arg).out)
    /\ UNCHANGED <<tb, tbSeen, storage, logs, handles, ann, flight, iter, rec>>

\* task.set_description(description, log)
SetDescription(t, h, l, d) ==
    /\ IsTask(h)
    /\ Mutate("set_description", t, h, l,
              Task_set_description(handles[h], t, d, logs[l]))
    /\ UNCHANGED ann

\* task.set_value(property, value, log)
SetValue(t, h, l, p, v) ==
    /\ IsTask(h)
    /\ Mutate("set_value", t, h, l,
              Task_set_value(handles[h], t, p, v, logs[l]))
    /\ UNCHANGED ann

\* task.set_status(status, log)
SetStatus(t, h, l, status) ==
    /\ IsTask(h)
    /\ Mutate("set_status", t, h, l,
              Task_set_status(handles[h], t, status, logs[l]))
    /\ UNCHANGED ann

\* task.set_priority(priority, log)
SetPriority(t, h, l, priority) ==
    /\ IsTask(h)
    /\ Mutate("set_priority", t, h, l,
              Task_set_priority(handles[h], t, priority, logs[l]))
    /\ UNCHANGED ann

\* task.add_tag(tag, log)
AddTag(t, h, l, tag) ==
    /\ IsTask(h)
    /\ Mutate("add_tag", t, h, l, Task_add_tag(handles[h], t, tag, logs[l]))
    /\ UNCHANGED ann

\* task.add_annotation(description, log)
AddAnnotation(t, h, l, d) ==
    /\ IsTask(h)
    /\ ann < MaxAnnotations
    /\ Mutate("add_annotation", t, h, l,
              Task_add_annotation(handles[h], t, d, ann, logs[l]))
    /\ ann' = IF Task_add_annotation_counts(handles[h], t, d) THEN ann + 1 ELSE ann

\* task.add_annotation(description, log) while the wall clock shows base_time
AddAnnotationAt(t, h, l, d, base_time) ==
    /\ IsTask(h)
    /\ ann <= MaxAnnotations
    /\ Mutate("add_annotation", t, h, l,
              Task_add_annotation_at(handles[h], t, d, ann, base_time, logs[l]))
    /\ ann' = IF Task_add_annotation_counts(handles[h], t, d) THEN ann + 1 ELSE ann

\* task.set_due(due, log)
SetDue(t, h, l, due) ==
    /\ IsTask(h)
    /\ Mutate("set_due", t, h, l, Task_set_due(handles[h], t, due, logs[l]))
    /\ UNCHANGED ann

\* task.set_entry(entry, log)
SetEntry(t, h, l, entry) ==
    /\ IsTask(h)
    /\ Mutate("set_entry", t, h, l, Task_set_entry(handles[h], t, entry, logs[l]))
    /\ UNCHANGED ann

\* task.set_timestamp(property, timestamp, log)
SetTimestamp(t, h, l, p, ts) ==
    /\ IsTask(h)
    /\ Mutate("set_timestamp", t, h, l,
              Task_set_timestamp(handles[h], t, p, ts, logs[l]))
    /\ UNCHANGED ann

\* task.set_uda(namespace, key, value, log)
SetUda(t, h, l, ns, key, v) ==
    /\ IsTask(h)
    /\ Mutate("set_uda", t, h, l, Task_set_uda(handles[h], t, ns, key, v, logs[l]))
    /\ UNCHANGED ann

\* task.delete_uda(namespace, key, log)
DeleteUda(t, h, l, ns, key) ==
    /\ IsTask(h)
    /\ Mutate("delete_uda", t, h, l, Task_delete_uda(handles[h], t, ns, key, logs[l]))
    /\ UNCHANGED ann

\* TaskData.create(uuid, log), the handle kept in slot h
TaskDataCreate(t, uuid, l, h) ==
    LET r == create_task_data(t, uuid, logs[l])
    IN  /\ Len(logs[l].ops) < MaxLogLen
        /\ logs' = [logs EXCEPT ![l] = r.log]
        /\ handles' = IF r.res = Ok THEN [handles EXCEPT ![h] = r.handle] ELSE handles
        /\ last' = Call("TaskData.create", t, h, l, r.res, Nil)
        /\ UNCHANGED <<tb, tbSeen, storage, ann, flight, iter, rec>>

\* task_data.update(property, value, log)
TaskDataUpdate(t, h, l, p, v) ==
    /\ IsTaskData(h)
    /\ Mutate("TaskData.update", t, h, l,
              TaskData_update(handles[h], t, p, v, logs[l]))
    /\ UNCHANGED ann

\* the iteration after a call that ended with result res: a panic of the
\* iterating thread happens inside the block, which then holds an exception
BlockCall(res) ==
    IF iter.active /\ res = Panic THEN [iter EXCEPT !.raised = TRUE] ELSE iter

\* log.push(operation)
Push(t, l, op) ==
    LET r == Operations_push(logs[l], t, op)
    IN  /\ ~iter.raised
        /\ Len(logs[l].ops) < MaxLogLen \/ r.res # Ok
        /\ logs' = [logs EXCEPT ![l] = r.log]
        /\ last' = Call("push", t, l, l, r.res, Nil)
        /\ iter' = BlockCall(r.res)
        /\ UNCHANGED <<tb, tbSeen, storage, handles, ann, flight, rec>>

\* log.clear
Clear(t, l) ==
    LET r == Operations_clear(logs[l], t)
    IN  /\ ~iter.raised
        /\ logs' = [logs EXCEPT ![l] = r.log]
        /\ last' = Call("clear", t, l, l, r.res, Nil)
        /\ iter' = BlockCall(r.res)
        /\ UNCHANGED <<tb, tbSeen, storage, handles, ann, flight, rec>>

\* the Operation objects a caller builds and pushes itself
PushInputs == {OpUndoPoint, OpDelete("u1", EmptyMap)}

\* strings passed as description, priority or annotation text
TextInputs == {"", " \t", "a", " b"}

\* the descriptions passed in the commit model: one refused, one accepted
SpecTexts == {"", "a"}

\* strings passed as property name
PropertyInputs == {"", " ", "x"}

InitReplica ==
    /\ storage = EmptyMap
    /\ \E t \in Threads : logs = [l \in Logs |-> [owner |-> t, ops |-> <<>>, readers |-> 0]]
    /\ handles = [h \in Handles |-> NoHandle]
    /\ ann = 0
    /\ flight = NoFlight
    /\ iter = NoIter
    /\ rec = NoRec
    /\ last = NoCall

Init ==
    /\ tb = ThreadBound_new("t1", "v0")
    /\ tbSeen = FALSE
    /\ InitReplica

Next ==
    \/ \E t \in Threads, u \in UuidInputs, l \in Logs, h \in Handles : CreateTask(t, u, l, h)
    \/ \E t \in Threads, l \in Logs, fault \in BOOLEAN : CommitOperations(t, l, fault)
    \/ \E t \in Threads, u \in UuidInputs, h \in Handles : GetTask(t, u, h)
    \/ \E t \in Threads : TaskUuids(t)
    \/ \E t \in Threads : Tasks(t)
    \/ \E t \in Threads, u \in UuidInputs : GetTaskData(t, u)
    \/ \E t \in Threads, h \in Handles, l \in Logs, d \in SpecTexts : SetDescription(t, h, l, d)
    \/ \E t \in Threads, l \in Logs, op \in PushInputs : Push(t, l, op)
    \/ \E t \in Threads, l \in Logs : Clear(t, l)

Spec == Init /\ [][Next]_vars

----------------------------------------------------------------------------
(* The guard model: one ThreadBound used by two threads *)

InitTB ==
    /\ \E t \in Threads, v \in TBValues : tb = ThreadBound_new(t, v)
    /\ tbSeen = FALSE
    /\ InitReplica

NextTB ==
    \/ \E t \in Threads : TBGet(t)
    \/ \E t \in Threads : TBGetMut(t)
    \/ TBDropRef
    \/ \E v \in TBValues : TBWrite(v)
    \/ TBDropRefMut
    \/ \E t \in Threads : TBIntoInner(t)
    \/ \E t \in Threads, v \in TBValues : TBNew(t, v)

SpecTB == InitTB /\ [][NextTB]_vars

----------------------------------------------------------------------------
(* The handle model: the mutators of a Task and a TaskData handle *)

\* the tag names passed (each a valid user tag)
TagInputs == {"work"}

\* Ruby values passed as status
StatusInputs ==
    {RSymbol("completed"), RStatus("completed"), RSymbol("unknown"),
     RSymbol("bogus"), RInteger("7")}

\* strings passed as UDA namespace and key
UdaInputs == {"", "n"}

\* the state after t1 has read the committed task u1 from the replica
InitMut ==
    /\ tb = ThreadBound_new("t1", "v0")
    /\ tbSeen = FALSE
    /\ storage = [u \in Uuids |-> EmptyMap]
    /\ \E t \in Threads : logs = [l \in Logs |-> [owner |-> t, ops |-> <<>>, readers |-> 0]]
    /\ handles = [h \in Handles |->
                    IF h = "h1" THEN Task_from_tc_task(ReplicaThread, "u1", EmptyMap)
                    ELSE NoHandle]
    /\ ann = 0
    /\ flight = NoFlight
    /\ iter = NoIter
    /\ rec = NoRec
    /\ last = NoCall

NextMut ==
    \/ \E t \in Threads, h \in Handles, l \in Logs, d \in TextInputs : SetDescription(t, h, l, d)
    \/ \E t \in Threads, h \in Handles, l \in Logs, p \in PropertyInputs, v \in ValueInputs :
          SetValue(t, h, l, p, v)
    \/ \E t \in Threads, h \in Handles, l \in Logs, st \in StatusInputs : SetStatus(t, h, l, st)
    \/ \E t \in Threads, h \in Handles, l \in Logs, d \in TextInputs : SetPriority(t, h, l, d)
    \/ \E t \in Threads, h \in Handles, l \in Logs, tag \in TagInputs : AddTag(t, h, l, tag)
    \/ \E t \in Threads, h \in Handles, l \in Logs, d \in TextInputs : AddAnnotation(t, h, l, d)
    \/ \E t \in Threads, h \in Handles, l \in Logs, dt \in DateInputs : SetDue(t, h, l, dt)
    \/ \E t \in Threads, h \in Handles, l \in Logs, dt \in DateInputs : SetEntry(t, h, l, dt)
    \/ \E t \in Threads, h \in Handles, l \in Logs, p \in PropertyInputs, dt \in DateInputs :
          SetTimestamp(t, h, l, p, dt)
    \/ \E t \in Threads, h \in Handles, l \in Logs, ns \in UdaInputs, k \in UdaInputs, v \in {"a"} :
          SetUda(t, h, l, ns, k, v)
    \/ \E t \in Threads, h \in Handles, l \in Logs, ns \in UdaInputs, k \in UdaInputs :
          DeleteUda(t, h, l, ns, k)
    \/ \E t \in Threads, u \in UuidInputs, l \in Logs : TaskDataCreate(t, u, l, "h2")
    \/ \E t \in Threads, h \in Handles, l \in Logs, p \in PropertyInputs, v \in ValueInputs :
          TaskDataUpdate(t, h, l, p, v)

SpecMut == InitMut /\ [][NextMut]_vars

\* the state after t1 has read the committed task u1 from the replica and
\* one thread has created a TaskData with a log it dropped since, while the
\* log at hand belongs to the other thread
InitForeign ==
    /\ tb = ThreadBound_new("t1", "v0")
    /\ tbSeen = FALSE
    /\ storage = [u \in Uuids |-> EmptyMap]
    /\ \E t \in Threads : \E o \in Threads \ {t} :
          /\ logs = [l \in Logs |-> [owner |-> o, ops |-> <<>>, readers |-> 0]]
          /\ handles =
                [h \in Handles |->
                    IF h = "h1" THEN Task_from_tc_task(ReplicaThread, "u1", EmptyMap)
                    ELSE create_task_data(t, "u1",
                             [owner |-> t, ops |-> <<>>, readers |-> 0]).handle]
    /\ ann = 0
    /\ flight = NoFlight
    /\ iter = NoIter
    /\ rec = NoRec
    /\ last = NoCall

SpecForeign == InitForeign /\ [][NextMut]_vars

\* the seconds the wall clock is read at
Clocks == 0..MaxClock

\* annotations are added, at any reading of the wall clock, to the handles
\* that threads get of the committed task
NextAnn ==
    \/ \E t \in Threads, h \in Handles, l \in Logs, d \in TextInputs, c \in Clocks :
          AddAnnotationAt(t, h, l, d, c)
    \/ \E t \in Threads, u \in UuidInputs : GetTask(t, u, "h2")

SpecAnn == InitMut /\ [][NextAnn]_vars

\* the read-only accessors together with the mutators whose writes they show
NextRead ==
    \/ \E t \in Threads, h \in Handles, name \in ReadNames, arg \in {"x"} :
          ReadTask(t, h, name, arg)
    \/ \E t \in Threads, h \in Handles, l \in Logs, p \in PropertyInputs, v \in ValueInputs :
          SetValue(t, h, l, p, v)
    \/ \E t \in Threads, h \in Handles, l \in Logs, st \in StatusInputs : SetStatus(t, h, l, st)
    \/ \E t \in Threads, h \in Handles, l \in Logs, tag \in TagInputs : AddTag(t, h, l, tag)
    \/ \E t \in Threads, h \in Handles, l \in Logs, d \in TextInputs : AddAnnotation(t, h, l, d)
    \/ \E t \in Threads, h \in Handles, l \in Logs, ns \in UdaInputs, k \in UdaInputs, v \in {"a"} :
          SetUda(t, h, l, ns, k, v)

SpecRead == InitMut /\ [][NextRead]_vars


----------------------------------------------------------------------------
(* The calls in flight: commit_operations in the steps threads can interleave *)

\* the field f of flight changed to v for thread t
FlightSet(fl, f, t, v) == [fl EXCEPT ![f] = [@ EXCEPT ![t] = v]]

\* a thread enters replica.commit_operations(log)
RepCall(t) ==
    /\ flight.pc[t] = "idle"
    /\ flight.calls[t] < MaxCalls
    /\ flight' = FlightSet(FlightSet(flight, "pc", t, "called"),
                           "calls", t, flight.calls[t] + 1)
    /\ UNCHANGED <<tb, tbSeen, storage, logs, handles, ann, iter, rec, last>>

\* self.0.get_mut(): check_thread()? returns the ThreadError at once
RepCheck(t) ==
    /\ flight.pc[t] = "called"
    /\ IF check_thread(ReplicaThread, t) # Ok
       THEN /\ flight' = FlightSet(flight, "pc", t, "idle")
            /\ last' = Call("commit_operations", t, "replica", "l1", ThreadError, Nil)
       ELSE /\ flight' = FlightSet(flight, "pc", t, "checked")
            /\ UNCHANGED last
    /\ UNCHANGED <<tb, tbSeen, storage, logs, handles, ann, iter, rec>>

\* inner.borrow_mut(), first half: the RefCell's borrow flag (a Cell, not
\* an atomic) is read
RepBorrowRead(t) ==
    /\ flight.pc[t] = "checked"
    /\ flight' = FlightSet(FlightSet(flight, "pc", t, "read"),
                           "flag", t, flight.writer)
    /\ UNCHANGED <<tb, tbSeen, storage, logs, handles, ann, iter, rec, last>>

\* inner.borrow_mut(), second half: a flag read as borrowed is a panic,
\* otherwise the flag is set; then operations.clone_inner() gives the
\* records the engine is to commit
RepBorrowSet(t, l) ==
    /\ flight.pc[t] = "read"
    /\ IF flight.flag[t]
       THEN /\ flight' = FlightSet(flight, "pc", t, "idle")
            /\ last' = Call("commit_operations", t, "replica", l, Panic, Nil)
       ELSE LET c == Operations_clone_inner(logs[l], t)
            IN  IF c.res # Ok
                THEN /\ flight' = FlightSet(flight, "pc", t, "idle")
                     /\ last' = Call("commit_operations", t, "replica", l, c.res, Nil)
                ELSE /\ flight' = [FlightSet(FlightSet(flight, "pc", t, "holding"),
                                             "todo", t, c.ops)
                                      EXCEPT !.writer = TRUE]
                     /\ UNCHANGED last
    /\ UNCHANGED <<tb, tbSeen, storage, logs, handles, ann, iter, rec>>

\* the engine, holding the RefMut, applies the next record of the commit
RepApply(t) ==
    /\ flight.pc[t] = "holding"
    /\ flight.todo[t] # <<>>
    /\ storage' = Engine_apply_op(storage, Head(flight.todo[t]))
    /\ flight' = [FlightSet(flight, "todo", t, Tail(flight.todo[t]))
                     EXCEPT !.applied = Append(@, [thread |-> t, call |-> flight.calls[t]])]
    /\ UNCHANGED <<tb, tbSeen, logs, handles, ann, iter, rec, last>>

\* commit_operations returns: the RefMut is dropped
RepReturn(t) ==
    /\ flight.pc[t] = "holding"
    /\ flight.todo[t] = <<>>
    /\ flight' = [FlightSet(flight, "pc", t, "idle") EXCEPT !.writer = FALSE]
    /\ last' = Call("commit_operations", t, "replica", "l1", Ok, Nil)
    /\ UNCHANGED <<tb, tbSeen, storage, logs, handles, ann, iter, rec>>

\* the logs a commit is called with: a Create, or a Create and an Update
RepLogs ==
    {<<OpCreate("u1")>>,
     <<OpCreate("u1"), OpUpdate("u1", "description", Now, Nil, "a")>>}

InitRep ==
    /\ tb = ThreadBound_new("t1", "v0")
    /\ tbSeen = FALSE
    /\ storage = EmptyMap
    /\ \E t \in Threads, ops \in RepLogs :
          logs = [l \in Logs |-> [owner |-> t, ops |-> ops, readers |-> 0]]
    /\ handles = [h \in Handles |-> NoHandle]
    /\ ann = 0
    /\ flight = NoFlight
    /\ iter = NoIter
    /\ rec = NoRec
    /\ last = NoCall

NextRep ==
    \/ \E t \in Threads : RepCall(t)
    \/ \E t \in Threads : RepCheck(t)
    \/ \E t \in Threads : RepBorrowRead(t)
    \/ \E t \in Threads, l \in Logs : RepBorrowSet(t, l)
    \/ \E t \in Threads : RepApply(t)
    \/ \E t \in Threads : RepReturn(t)

SpecRep == InitRep /\ [][NextRep]_vars

----------------------------------------------------------------------------
(* operation.rs: Operation(TCOperation), its constructors and accessors *)

\* TryConvert for Option<String>: nil is None, a String is Some, any other
\* object is a TypeError raised before the method body runs
to_option_string(v) ==
    IF is_nil(v) THEN [res |-> Ok, opt |-> Nil]
    ELSE IF v.class = "String" THEN [res |-> Ok, opt |-> v.str]
    ELSE [res |-> TypeError, opt |-> Nil]

\* util.rs ruby_to_hashmap: foreach with String keys and String values; a
\* value that is no String stops the conversion with a TypeError
ruby_to_hashmap(hash) ==
    IF \E k \in DOMAIN hash : hash[k].class # "String"
    THEN [res |-> TypeError, map |-> EmptyMap]
    ELSE [res |-> Ok, map |-> [k \in DOMAIN hash |-> hash[k].str]]

\* util.rs datetime_to_ruby: DateTime.parse of the instant's RFC 3339 text
datetime_to_ruby(dt) == [class |-> "DateTime", str |-> IntToString(dt)]

\* Operation::create
Operation_create(uuid) ==
    IF uuid2tc(uuid).res # Ok
    THEN [res |-> ValidationError, op |-> OpUndoPoint]
    ELSE [res |-> Ok, op |-> OpCreate(uuid2tc(uuid).uuid)]

\* Operation::delete: ruby_to_hashmap(old_task)?, then uuid2tc(&uuid)?
Operation_delete(uuid, old_task) ==
    IF ruby_to_hashmap(old_task).res # Ok
    THEN [res |-> ruby_to_hashmap(old_task).res, op |-> OpUndoPoint]
    ELSE IF uuid2tc(uuid).res # Ok
    THEN [res |-> ValidationError, op |-> OpUndoPoint]
    ELSE [res |-> Ok,
          op |-> OpDelete(uuid2tc(uuid).uuid, ruby_to_hashmap(old_task).map)]

\* mutant of Operation_update: old_value and value change places
Operation_update_swapped(uuid, property, timestamp, old_value, value) ==
    IF ruby_to_datetime(timestamp).res # Ok \/ uuid2tc(uuid).res # Ok
    THEN [res |-> ValidationError, op |-> OpUndoPoint]
    ELSE [res |-> Ok,
          op |-> OpUpdate(uuid2tc(uuid).uuid, property,
                          ruby_to_datetime(timestamp).dt,
                          to_option_string(value).opt,
                          to_option_string(old_value).opt)]

\* Operation::update: the Option<String> arguments are converted on entry,
\* then ruby_to_datetime(timestamp)?, then uuid2tc(&uuid)?; the property is
\* taken as it is
Operation_update(uuid, property, timestamp, old_value, value) ==
    IF to_option_string(old_value).res # Ok \/ to_option_string(value).res # Ok
    THEN [res |-> TypeError, op |-> OpUndoPoint]
    ELSE IF ruby_to_datetime(timestamp).res # Ok
    THEN [res |-> ValidationError, op |-> OpUndoPoint]
    ELSE IF uuid2tc(uuid).res # Ok
    THEN [res |-> ValidationError, op |-> OpUndoPoint]
    ELSE [res |-> Ok,
          op |-> OpUpdate(uuid2tc(uuid).uuid, property,
                          ruby_to_datetime(timestamp).dt,
                          to_option_string(old_value).opt,
                          to_option_string(value).opt)]

\* Operation::undo_point
Operation_undo_point == [res |-> Ok, op |-> OpUndoPoint]

\* Operation::update_op (update?)
Operation_update_op(op) == op.type = "Update"

\* the arguments a record was built from
Args(u, p, ts, o, v, old) ==
    [uuid |-> u, property |-> p, timestamp |-> ts, old_value |-> o,
     value |-> v, old_task |-> old]

\* Operation.create(uuid): the new record at hand, or the error
OperationCreate(u) ==
    /\ rec' = IF Operation_create(u).res = Ok
              THEN [op |-> Operation_create(u).op, args |-> Args(u, Nil, RNil, RNil, RNil, EmptyMap)]
              ELSE rec
    /\ last' = Call("Operation.create", "t1", "Operation", Nil, Operation_create(u).res, Nil)
    /\ UNCHANGED <<tb, tbSeen, storage, logs, handles, ann, flight, iter>>

\* Operation.delete(uuid, old_task)
OperationDelete(u, old) ==
    /\ rec' = IF Operation_delete(u, old).res = Ok
              THEN [op |-> Operation_delete(u, old).op, args |-> Args(u, Nil, RNil, RNil, RNil, old)]
              ELSE rec
    /\ last' = Call("Operation.delete", "t1", "Operation", Nil, Operation_delete(u, old).res, Nil)
    /\ UNCHANGED <<tb, tbSeen, storage, logs, handles, ann, flight, iter>>

\* Operation.update(uuid, property, timestamp, old_value, value)
OperationUpdate(u, p, ts, o, v) ==
    /\ rec' = IF Operation_update(u, p, ts, o, v).res = Ok
              THEN [op |-> Operation_update(u, p, ts, o, v).op, args |-> Args(u, p, ts, o, v, EmptyMap)]
              ELSE rec
    /\ last' = Call("Operation.update", "t1", "Operation", Nil, Operation_update(u, p, ts, o, v).res, Nil)
    /\ UNCHANGED <<tb, tbSeen, storage, logs, handles, ann, flight, iter>>

\* Operation.undo_point
OperationUndoPoint ==
    /\ rec' = IF Operation_undo_point.res = Ok
              THEN [op |-> Operation_undo_point.op, args |-> Args(Nil, Nil, RNil, RNil, RNil, EmptyMap)]
              ELSE rec
    /\ last' = Call("Operation.undo_point", "t1", "Operation", Nil, Operation_undo_point.res, Nil)
    /\ UNCHANGED <<tb, tbSeen, storage, logs, handles, ann, flight, iter>>

\* operation.uuid on the record at hand: uuid.to_string() unless the record
\* is an UndoPoint, for which the call is refused
OperationUuid ==
    /\ rec.op.type # "none"
    /\ last' = IF rec.op.type # "UndoPoint"
               THEN Call("uuid", "t1", "Operation", Nil, Ok, rec.op.uuid)
               ELSE Call("uuid", "t1", "Operation", Nil, ArgumentError, Nil)
    /\ UNCHANGED <<tb, tbSeen, storage, logs, handles, ann, flight, iter, rec>>

\* operation.old_task: a Hash built from the HashMap of a Delete
OperationOldTask ==
    /\ rec.op.type # "none"
    /\ last' = IF rec.op.type = "Delete"
               THEN Call("old_task", "t1", "Operation", Nil, Ok, [k \in DOMAIN rec.op.old_task |-> RString(rec.op.old_task[k])])
               ELSE Call("old_task", "t1", "Operation", Nil, ArgumentError, Nil)
    /\ UNCHANGED <<tb, tbSeen, storage, logs, handles, ann, flight, iter, rec>>

\* operation.property
OperationProperty ==
    /\ rec.op.type # "none"
    /\ last' = IF rec.op.type = "Update"
               THEN Call("property", "t1", "Operation", Nil, Ok, rec.op.property)
               ELSE Call("property", "t1", "Operation", Nil, ArgumentError, Nil)
    /\ UNCHANGED <<tb, tbSeen, storage, logs, handles, ann, flight, iter, rec>>

\* operation.timestamp
OperationTimestamp ==
    /\ rec.op.type # "none"
    /\ last' = IF rec.op.type = "Update"
               THEN Call("timestamp", "t1", "Operation", Nil, Ok, datetime_to_ruby(rec.op.timestamp))
               ELSE Call("timestamp", "t1", "Operation", Nil, ArgumentError, Nil)
    /\ UNCHANGED <<tb, tbSeen, storage, logs, handles, ann, flight, iter, rec>>

\* operation.old_value: nil for None
OperationOldValue ==
    /\ rec.op.type # "none"
    /\ last' = IF rec.op.type = "Update"
               THEN Call("old_value", "t1", "Operation", Nil, Ok, option_into_value(rec.op.old_value))
               ELSE Call("old_value", "t1", "Operation", Nil, ArgumentError, Nil)
    /\ UNCHANGED <<tb, tbSeen, storage, logs, handles, ann, flight, iter, rec>>

\* operation.value: nil for None
OperationValue ==
    /\ rec.op.type # "none"
    /\ last' = IF rec.op.type = "Update"
               THEN Call("value", "t1", "Operation", Nil, Ok, option_into_value(rec.op.value))
               ELSE Call("value", "t1", "Operation", Nil, ArgumentError, Nil)
    /\ UNCHANGED <<tb, tbSeen, storage, logs, handles, ann, flight, iter, rec>>

\* operation.update?
OperationIsUpdate ==
    /\ rec.op.type # "none"
    /\ last' = Call("update?", "t1", "Operation", Nil, Ok, Operation_update_op(rec.op))
    /\ UNCHANGED <<tb, tbSeen, storage, logs, handles, ann, flight, iter, rec>>

\* Ruby Hashes passed as old_task
OldTaskInputs ==
    {EmptyMap, [k \in {"description"} |-> RString("a")],
     [k \in {"description"} |-> RInteger("7")]}

\* Ruby values passed as old_value and value
OptionInputs == {RNil, RString(""), RString("a")}

\* Ruby values passed as the timestamp of an Update
StampInputs == {RString("1970-01-01T00:00:01Z"), RString("tomorrow")}

InitOp ==
    /\ tb = ThreadBound_new("t1", "v0")
    /\ tbSeen = FALSE
    /\ storage = EmptyMap
    /\ logs = [l \in Logs |-> [owner |-> "t1", ops |-> <<>>, readers |-> 0]]
    /\ handles = [h \in Handles |-> NoHandle]
    /\ ann = 0
    /\ flight = NoFlight
    /\ iter = NoIter
    /\ rec = NoRec
    /\ last = NoCall

NextOp ==
    \/ \E u \in UuidInputs : OperationCreate(u)
    \/ \E u \in UuidInputs, old \in OldTaskInputs : OperationDelete(u, old)
    \/ \E u \in UuidInputs, p \in PropertyInputs, ts \in StampInputs,
          o \in OptionInputs, v \in OptionInputs : OperationUpdate(u, p, ts, o, v)
    \/ OperationUndoPoint
    \/ OperationUuid
    \/ OperationOldTask
    \/ OperationProperty
    \/ OperationTimestamp
    \/ OperationOldValue
    \/ OperationValue
    \/ OperationIsUpdate

SpecOp == InitOp /\ [][NextOp]_vars

----------------------------------------------------------------------------
(* The log model: reading and iterating an Operations log *)

\* the indices passed to get: every one in range, and some out of range on
\* both sides
IndexInputs == (0 - (MaxLogLen + 1)) .. (MaxLogLen + 1)

\* mutant of Operations_get: a negative index is taken from the front
Operations_get_abs(log, caller, index) ==
    IF check_thread(log.owner, caller) # Ok
    THEN [res |-> ThreadError, out |-> RNil]
    ELSE LET actual_index == IF index < 0 THEN 0 - index ELSE index
         IN  IF actual_index < 0 \/ actual_index >= Len(log.ops)
             THEN [res |-> Ok, out |-> RNil]
             ELSE [res |-> Ok, out |-> log.ops[actual_index + 1]]

\* Operations::get ([]): get()?, borrow(), a negative index has the length
\* added, an index outside 0..len-1 answers nil, any other the record there
\* (sequences count from 1, the Vec from 0)
Operations_get(log, caller, index) ==
    IF check_thread(log.owner, caller) # Ok
    THEN [res |-> ThreadError, out |-> RNil]
    ELSE LET len == Len(log.ops)
             actual_index == IF index < 0 THEN len + index ELSE index
         IN  IF actual_index < 0 \/ actual_index >= len
             THEN [res |-> Ok, out |-> RNil]
             ELSE [res |-> Ok, out |-> log.ops[actual_index + 1]]

\* log[index]
Get(t, l, index) ==
    LET r == Operations_get(logs[l], t, index)
    IN  /\ ~iter.raised
        /\ last' = [op |-> "get", result |-> r.res, out |-> r.out, index |-> index]
        /\ UNCHANGED <<tb, tbSeen, storage, logs, handles, ann, flight, iter, rec>>

\* log.to_a
ToA(t, l) ==
    LET r == Operations_to_array(logs[l], t)
    IN  /\ ~iter.raised
        /\ last' = Call("to_a", t, l, l, r.res, r.out)
        /\ UNCHANGED <<tb, tbSeen, storage, logs, handles, ann, flight, iter, rec>>

\* log.each without a block: self.to_array()
EachNoBlock(t, l) ==
    LET r == Operations_to_array(logs[l], t)
    IN  /\ ~iter.raised
        /\ last' = Call("each_entry", t, l, l, r.res, r.out)
        /\ UNCHANGED <<tb, tbSeen, storage, logs, handles, ann, flight, iter, rec>>

\* log.each { ... }: get()?, then ops.borrow(), a Ref that lives until each
\* returns; an empty log is done at once, otherwise the block is called
\* with the first record.  The value each records is the sequence of
\* records the block was called with
EachBegin(t, l) ==
    /\ ~iter.active
    /\ IF check_thread(logs[l].owner, t) # Ok
       THEN /\ last' = Call("each", t, l, l, ThreadError, <<>>)
            /\ UNCHANGED <<logs, iter>>
       ELSE IF logs[l].ops = <<>>
       THEN /\ last' = Call("each", t, l, l, Ok, <<>>)
            /\ iter' = NoIter
            /\ UNCHANGED logs
       ELSE /\ logs' = [logs EXCEPT ![l].readers = @ + 1]
            /\ iter' = [active |-> TRUE, start |-> logs[l].ops,
                        seen |-> <<logs[l].ops[1]>>, raised |-> FALSE]
            /\ UNCHANGED last
    /\ UNCHANGED <<tb, tbSeen, storage, handles, ann, flight, rec>>

\* the block returned: ops.iter() gives the next record of the Vec and the
\* block is called with it
EachVisit(l) ==
    /\ iter.active /\ ~iter.raised
    /\ Len(iter.seen) < Len(logs[l].ops)
    /\ iter' = [iter EXCEPT !.seen = Append(@, logs[l].ops[Len(iter.seen) + 1])]
    /\ UNCHANGED <<tb, tbSeen, storage, logs, handles, ann, flight, rec, last>>

\* the block returned and ops.iter() is exhausted: each drops the Ref and
\* returns nil
EachEnd(t, l) ==
    /\ iter.active /\ ~iter.raised
    /\ t = logs[l].owner
    /\ Len(iter.seen) >= Len(logs[l].ops)
    /\ logs' = [logs EXCEPT ![l].readers = @ - 1]
    /\ iter' = [iter EXCEPT !.active = FALSE]
    /\ last' = Call("each", t, l, l, Ok, iter.seen)
    /\ UNCHANGED <<tb, tbSeen, storage, handles, ann, flight, rec>>

\* the block rescues the exception a call inside it raised and goes on
EachRescue ==
    /\ iter.active /\ iter.raised
    /\ iter' = [iter EXCEPT !.raised = FALSE]
    /\ UNCHANGED <<tb, tbSeen, storage, logs, handles, ann, flight, rec, last>>

\* the block lets the exception out: block.call(..)? returns it from each,
\* the Ref is dropped and the records left are not visited
EachAbort(t, l) ==
    /\ iter.active /\ iter.raised
    /\ t = logs[l].owner
    /\ logs' = [logs EXCEPT ![l].readers = @ - 1]
    /\ iter' = [iter EXCEPT !.active = FALSE, !.raised = FALSE]
    /\ last' = Call("each", t, l, l, Panic, iter.seen)
    /\ UNCHANGED <<tb, tbSeen, storage, handles, ann, flight, rec>>

InitLog ==
    /\ tb = ThreadBound_new("t1", "v0")
    /\ tbSeen = FALSE
    /\ InitReplica

NextLog ==
    \/ \E t \in Threads, l \in Logs, op \in PushInputs : Push(t, l, op)
    \/ \E t \in Threads, l \in Logs : Clear(t, l)
    \/ \E t \in Threads, l \in Logs, i \in IndexInputs : Get(t, l, i)
    \/ \E t \in Threads, l \in Logs : ToA(t, l)
    \/ \E t \in Threads, l \in Logs : EachNoBlock(t, l)
    \/ \E t \in Threads, l \in Logs : EachBegin(t, l)
    \/ \E l \in Logs : EachVisit(l)
    \/ \E t \in Threads, l \in Logs : EachEnd(t, l)
    \/ EachRescue
    \/ \E t \in Threads, l \in Logs : EachAbort(t, l)

SpecLog == InitLog /\ [][NextLog]_vars

----------------------------------------------------------------------------
(* The classification of engine failures *)

\* the words of the engine failure messages explored: every keyword of
\* map_taskchampion_error, a keyword in the other letter case, and a word
\* that is no keyword
Words ==
    {"No such file", "Permission denied", "permission", "storage", "database",
     "sync", "server", "network", "remote", "config", "invalid", "parse",
     "format", "validation", "oops"}

RECURSIVE JoinWords(_)
\* the words of ws separated by blanks
JoinWords(ws) ==
    IF Len(ws) = 1 THEN ws[1] ELSE ws[1] \o " " \o JoinWords(Tail(ws))

\* the messages of one to MaxWords words
Messages == {JoinWords(ws) : ws \in UNION {[1..n -> Words] : n \in 1..MaxWords}}

\* an engine call has failed with message msg; map_err(into_error) has not
\* run yet
EngineFailure(msg) == Call("engine_failure", ReplicaThread, "replica", Nil, Nil, msg)

\* map_err(into_error): the pending engine failure is classified
Classify ==
    /\ last.op = "engine_failure"
    /\ last' = Call("into_error", ReplicaThread, "replica", Nil,
                    into_error(last.out), last.out)
    /\ UNCHANGED <<tb, tbSeen, storage, logs, handles, ann, flight, iter, rec>>

InitErr ==
    /\ tb = ThreadBound_new("t1", "v0")
    /\ tbSeen = FALSE
    /\ storage = EmptyMap
    /\ \E t \in Threads : logs = [l \in Logs |-> [owner |-> t, ops |-> <<>>, readers |-> 0]]
    /\ handles = [h \in Handles |-> NoHandle]
    /\ ann = 0
    /\ flight = NoFlight
    /\ iter = NoIter
    /\ rec = NoRec
    /\ \E msg \in Messages : last = EngineFailure(msg)

NextErr == Classify

SpecErr == InitErr /\ [][NextErr]_vars

----------------------------------------------------------------------------
(* working_set.rs, dependency_map.rs: WorkingSet(ThreadBound<Arc<..>>) and
   DependencyMap(ThreadBound<Arc<..>>), the objects a caller obtained from
   the replica.  The variable tb is the ThreadBound of the object at hand *)

\* no WorkingSet or DependencyMap has been obtained yet
NoView == [kind |-> "none", by_index |-> <<>>, edges |-> {}]

\* the working sets the engine may hold for a store: every pending task has
\* exactly one index from 1 on, indices left by removed tasks stay as holes
\* until a renumbering rebuild, and the largest index is taken
Engine_working_sets(st) ==
    LET pending == {u \in DOMAIN st : MapGet(st[u], "status") \in {Nil, "pending"}}
    IN  {ws \in UNION {[1..n -> pending \cup {Nil}] : n \in 0..MaxIndex} :
            /\ \A u \in pending : Cardinality({i \in 1..Len(ws) : ws[i] = u}) = 1
            /\ Len(ws) > 0 => ws[Len(ws)] # Nil}

\* the engine's dependency map of a store: an edge from a task to every uuid
\* it keeps a dep_ property for
Engine_dependency_map(st) ==
    {<<u, d>> : u \in DOMAIN st, d \in Uuids} \cap
    {e \in (DOMAIN st) \X Uuids : ("dep_" \o e[2]) \in DOMAIN st[e[1]]}

\* the engine's expire_tasks: the tasks whose status is deleted are removed
Engine_expire_tasks(st) ==
    [u \in {x \in DOMAIN st : MapGet(st[x], "status") # "deleted"} |-> st[u]]

\* mutant of View_call: by_uuid counts positions from 0
View_call_from_zero(b, caller, name, arg) ==
    LET g == ThreadBound_get(b, caller)
    IN  IF g.res # Ok
        THEN [res |-> g.res, out |-> RNil]
        ELSE CASE name = "by_index" ->
                    [res |-> Ok,
                     out |-> IF arg \in 1..Len(g.value.by_index)
                             THEN option_into_value(g.value.by_index[arg])
                             ELSE RNil]
               [] name = "by_uuid" ->
                    IF uuid2tc(arg).res # Ok
                    THEN [res |-> ValidationError, out |-> RNil]
                    ELSE [res |-> Ok,
                          out |-> IF \E i \in 1..Len(g.value.by_index) :
                                        g.value.by_index[i] = uuid2tc(arg).uuid
                                  THEN RInteger(IntToString(
                                           (CHOOSE i \in 1..Len(g.value.by_index) :
                                               g.value.by_index[i] = uuid2tc(arg).uuid) - 1))
                                  ELSE RNil]
               [] OTHER -> [res |-> RuntimeError, out |-> RNil]

\* the methods of a WorkingSet or DependencyMap: each is self.0.get()? and a
\* read of the wrapped engine object; renumber reads nothing and fails
View_call(b, caller, name, arg) ==
    LET g == ThreadBound_get(b, caller)
    IN  IF g.res # Ok
        THEN [res |-> g.res, out |-> RNil]
        ELSE CASE name = "largest_index" ->
                    [res |-> Ok, out |-> RInteger(IntToString(Len(g.value.by_index)))]
               [] name = "by_index" ->
                    [res |-> Ok,
                     out |-> IF arg \in 1..Len(g.value.by_index)
                             THEN option_into_value(g.value.by_index[arg])
                             ELSE RNil]
               [] name = "by_uuid" ->
                    IF uuid2tc(arg).res # Ok
                    THEN [res |-> ValidationError, out |-> RNil]
                    ELSE [res |-> Ok,
                          out |-> IF \E i \in 1..Len(g.value.by_index) :
                                        g.value.by_index[i] = uuid2tc(arg).uuid
                                  THEN RInteger(IntToString(
                                           CHOOSE i \in 1..Len(g.value.by_index) :
                                               g.value.by_index[i] = uuid2tc(arg).uuid))
                                  ELSE RNil]
               [] name = "dependencies" ->
                    IF uuid2tc(arg).res # Ok
                    THEN [res |-> ValidationError, out |-> RNil]
                    ELSE [res |-> Ok,
                          out |-> RArray({e[2] : e \in {x \in g.value.edges :
                                                          x[1] = uuid2tc(arg).uuid}})]
               [] name = "dependents" ->
                    IF uuid2tc(arg).res # Ok
                    THEN [res |-> ValidationError, out |-> RNil]
                    ELSE [res |-> Ok,
                          out |-> RArray({e[1] : e \in {x \in g.value.edges :
                                                          x[2] = uuid2tc(arg).uuid}})]
               [] OTHER -> [res |-> RuntimeError, out |-> RNil]

\* the methods of the two classes
ViewMethods ==
    [WorkingSet |-> {"largest_index", "by_index", "by_uuid", "renumber"},
     DependencyMap |-> {"dependencies", "dependents"}]

\* replica.working_set, the object kept by the caller; ws is the working set
\* the engine holds at the call
WorkingSetQuery(t) ==
    /\ \E ws \in Engine_working_sets(storage) :
          tb' = IF check_thread(ReplicaThread, t) # Ok THEN tb
                ELSE ThreadBound_new(t, [kind |-> "WorkingSet", by_index |-> ws,
                                         edges |-> {}])
    /\ last' = Call("working_set", t, "replica", Nil, check_thread(ReplicaThread, t), Nil)
    /\ UNCHANGED <<tbSeen, storage, logs, handles, ann, flight, iter, rec>>

\* replica.dependency_map(force), the object kept by the caller
DependencyMapQuery(t, force) ==
    /\ tb' = IF check_thread(ReplicaThread, t) # Ok THEN tb
             ELSE ThreadBound_new(t, [kind |-> "DependencyMap", by_index |-> <<>>,
                                      edges |-> Engine_dependency_map(storage)])
    /\ last' = Call("dependency_map", t, "replica", Nil, check_thread(ReplicaThread, t), Nil)
    /\ UNCHANGED <<tbSeen, storage, logs, handles, ann, flight, iter, rec>>

\* mutant of RebuildWorkingSet: a renumbering rebuild also renumbers the
\* WorkingSet the caller holds
RebuildWorkingSet_live(t, renumber) ==
    /\ last' = Call("rebuild_working_set", t, "replica", Nil, check_thread(ReplicaThread, t), Nil)
    /\ tb' = IF check_thread(ReplicaThread, t) = Ok /\ renumber
             THEN [tb EXCEPT !.inner.by_index = SelectSeq(@, LAMBDA u : u # Nil)]
             ELSE tb
    /\ UNCHANGED <<tbSeen, storage, logs, handles, ann, flight, iter, rec>>

\* replica.rebuild_working_set(renumber): the engine rebuilds the working set
\* it holds; the tasks of the store stay
RebuildWorkingSet(t, renumber) ==
    /\ last' = Call("rebuild_working_set", t, "replica", Nil, check_thread(ReplicaThread, t), Nil)
    /\ UNCHANGED <<tb, tbSeen, storage, logs, handles, ann, flight, iter, rec>>

\* replica.expire_tasks
ExpireTasks(t) ==
    /\ storage' = IF check_thread(ReplicaThread, t) # Ok THEN storage
                  ELSE Engine_expire_tasks(storage)
    /\ last' = Call("expire_tasks", t, "replica", Nil, check_thread(ReplicaThread, t), Nil)
    /\ UNCHANGED <<tb, tbSeen, logs, handles, ann, flight, iter, rec>>

\* a method of the WorkingSet or DependencyMap at hand is called; the Ref it
\* takes is dropped when it returns
ViewCall(t, name, arg) ==
    /\ tb.inner.kind # "none"
    /\ name \in ViewMethods[tb.inner.kind]
    /\ last' = [op |-> name, result |-> View_call(tb, t, name, arg).res,
                out |-> View_call(tb, t, name, arg).out, arg |-> arg]
    /\ UNCHANGED <<tb, tbSeen, storage, logs, handles, ann, flight, iter, rec>>

InitWS ==
    /\ tb = ThreadBound_new(ReplicaThread, NoView)
    /\ tbSeen = FALSE
    /\ InitReplica

NextWS ==
    \/ \E t \in Threads, l \in Logs : CreateTask(t, "u1", l, "h1")
    \/ \E t \in Threads, l \in Logs : CommitOperations(t, l, FALSE)
    \/ \E t \in Threads, l \in Logs : Push(t, l, OpDelete("u1", EmptyMap))
    \/ \E t \in Threads, l \in Logs : SetValue(t, "h1", l, "dep_u1", RString(""))
    \/ \E t \in Threads, l \in Logs : SetStatus(t, "h1", l, RSymbol("deleted"))
    \/ \E t \in Threads, r \in BOOLEAN : RebuildWorkingSet(t, r)
    \/ \E t \in Threads : ExpireTasks(t)
    \/ \E t \in Threads : WorkingSetQuery(t)
    \/ \E t \in Threads, force \in BOOLEAN : DependencyMapQuery(t, force)
    \/ \E t \in Threads, i \in 0..(MaxIndex + 1) : ViewCall(t, "by_index", i)
    \/ \E t \in Threads, name \in {"by_uuid", "dependencies", "dependents"},
          u \in UuidInputs : ViewCall(t, name, u)
    \/ \E t \in Threads, name \in {"largest_index", "renumber"} : ViewCall(t, name, Nil)

SpecWS == InitWS /\ [][NextWS]_vars

----------------------------------------------------------------------------
(* Properties of the commit protocol (Spec) *)

\* what task, tasks and task_uuids show of a store, to every thread and for
\* every uuid string
Observable(st) ==
    [task |-> [c \in Threads |-> [u \in UuidInputs |-> Replica_task(st, c, u)]],
     tasks |-> [c \in Threads |-> Replica_tasks(st, c)],
     task_uuids |-> [c \in Threads |-> Replica_task_uuids(st, c)]]

\* the store after the first n records of ops were applied one by one
RECURSIVE AppliedInPushOrder(_, _, _)
AppliedInPushOrder(st, ops, n) ==
    IF n = 0 THEN st
    ELSE Engine_apply_op(AppliedInPushOrder(st, ops, n - 1), ops[n])

\* C1: a commit_operations call that returns an error applies none of the
\* log's records: what task, tasks and task_uuids show after the failed call
\* is what they showed before it
C1_FailedCommitAppliesNothing ==
    [][\A t \in Threads, l \in Logs, fault \in BOOLEAN :
          (last'.op = "commit_operations" /\ last'.result # Ok
             /\ CommitOperations(t, l, fault))
              => (storage' = storage /\ Observable(storage') = Observable(storage))]_vars

\* a commit has just failed in the backend with records in the log whose
\* application would have changed the store
C1_Witness ==
    /\ last.op = "commit_operations"
    /\ last.result = StorageError
    /\ logs["l1"].ops # <<>>
    /\ AppliedInPushOrder(storage, logs["l1"].ops, Len(logs["l1"].ops)) # storage

\* C2: after a successful commit_operations the store is the store before
\* the call with the records of the log applied one by one in push order
C2_CommitAppliesInPushOrder ==
    [][\A t \in Threads, l \in Logs, fault \in BOOLEAN :
          (last'.op = "commit_operations" /\ last'.result = Ok
             /\ CommitOperations(t, l, fault))
              => storage' = AppliedInPushOrder(storage, logs[l].ops, Len(logs[l].ops))]_vars

\* a commit has just succeeded on a log holding a Create and then an Update
\* of the same task, which applied in the opposite order give another store
C2_Witness ==
    /\ last.op = "commit_operations"
    /\ last.result = Ok
    /\ Len(logs["l1"].ops) = 2
    /\ logs["l1"].ops[1].type = "Create"
    /\ logs["l1"].ops[2].type = "Update"
    /\ "u1" \in DOMAIN storage
    /\ "description" \in DOMAIN storage["u1"]

\* C9: a mutation made through a handle and a log is not visible in storage
\* before the commit: every step other than a successful commit_operations
\* leaves the results of task, tasks and task_uuids as they were
C9_InvisibleUntilCommit ==
    [][~(last'.op = "commit_operations" /\ last'.result = Ok)
          => (storage' = storage /\ Observable(storage') = Observable(storage))]_vars

\* a handle of a created task has been given a description that storage
\* does not show: the task is not even listed yet
C9_Witness ==
    /\ last.op = "set_description"
    /\ last.result = Ok
    /\ \E h \in Handles :
          /\ handles[h].kind = "Task"
          /\ Task_description(handles[h]) = "a"
          /\ Replica_task(storage, ReplicaThread, handles[h].uuid).handle = NoHandle
          /\ Replica_task_uuids(storage, ReplicaThread).out = {}

\* C10: commit_operations leaves the log it is given as it was, whether it
\* succeeds or fails: same length, same records, same order
C10_CommitLeavesLog ==
    [][\A t \in Threads, l \in Logs, fault \in BOOLEAN :
          (last'.op = "commit_operations" /\ CommitOperations(t, l, fault))
              => logs' = logs]_vars

\* a commit has just succeeded and its two records are still in the log
C10_Witness ==
    /\ last.op = "commit_operations"
    /\ last.result = Ok
    /\ Len(logs["l1"].ops) = MaxLogLen
    /\ AppliedInPushOrder(EmptyMap, logs["l1"].ops, Len(logs["l1"].ops)) = storage

----------------------------------------------------------------------------
(* Properties of the guard (SpecTB) *)

\* C3: get, get_mut and into_inner called from a thread other than the one
\* that constructed the guard fail with ThreadError, return no access to the
\* value and take no borrow, whatever calls came before
C3_ForeignCallsFail ==
    [][\A t \in Threads :
          ((TBGet(t) \/ TBGetMut(t) \/ TBIntoInner(t)) /\ t # tb.thread_id)
              => /\ last'.result = ThreadError
                 /\ last'.out = Nil
                 /\ tb'.readers = tb.readers
                 /\ tb'.writer = tb.writer
                 /\ tb'.inner = tb.inner]_vars

\* a foreign get has just failed while the owner holds a Ref
C3_Witness ==
    /\ last.op = "get"
    /\ last.result = ThreadError
    /\ tb.readers > 0
    /\ tbSeen

\* C4: a failed get or get_mut from a foreign thread changes nothing of the
\* guard (value, owner identity, borrow state), so the owner's next get and
\* get_mut have the outcome they would have had without the attempt, and
\* succeed when no conflicting borrow of the owner's is outstanding
C4_FailedForeignCallNoEffect ==
    [][\A t \in Threads :
          ((TBGet(t) \/ TBGetMut(t)) /\ t # tb.thread_id)
              => /\ tb' = tb
                 /\ ThreadBound_get(tb', tb'.thread_id) = ThreadBound_get(tb, tb.thread_id)
                 /\ ThreadBound_get_mut(tb', tb'.thread_id) = ThreadBound_get_mut(tb, tb.thread_id)
                 /\ (~tb.writer => ThreadBound_get(tb', tb'.thread_id).res = Ok)
                 /\ (~tb.writer /\ tb.readers = 0
                        => ThreadBound_get_mut(tb', tb'.thread_id).res = Ok)]_vars

\* the owner's get_mut has just succeeded on a guard that saw a failed
\* foreign attempt
C4_Witness ==
    /\ tbSeen
    /\ last.op = "get_mut"
    /\ last.result = Ok
    /\ tb.writer

----------------------------------------------------------------------------
(* Properties of the handles (SpecMut) *)

\* the empty and the whitespace-only texts among the inputs
BlankTexts == {"", " \t"}

\* the statuses among the inputs that name no status
UnknownStatuses == {RSymbol("bogus"), RInteger("7")}

\* the timestamps among the inputs that are malformed
MalformedDates == {RString("tomorrow"), RInteger("7")}

\* the call made in this step left the handles and the logs as they were
HandleAndLogUnchanged == handles' = handles /\ logs' = logs

\* a Task mutator is called with input the method rejects, by thread t on
\* handle h with log l
InvalidMutatorCall(t, h, l) ==
    \/ /\ last'.op = "set_description"
       /\ \E d \in BlankTexts : SetDescription(t, h, l, d)
    \/ /\ last'.op = "set_priority"
       /\ \E d \in BlankTexts : SetPriority(t, h, l, d)
    \/ /\ last'.op = "add_annotation"
       /\ \E d \in BlankTexts : AddAnnotation(t, h, l, d)
    \/ /\ last'.op = "set_value"
       /\ \E v \in ValueInputs : SetValue(t, h, l, "", v)
    \/ /\ last'.op = "set_timestamp"
       /\ \E dt \in DateInputs : SetTimestamp(t, h, l, "", dt)
    \/ /\ last'.op = "set_uda"
       /\ \/ \E k \in UdaInputs : SetUda(t, h, l, "", k, "a")
          \/ \E ns \in UdaInputs : SetUda(t, h, l, ns, "", "a")
    \/ /\ last'.op = "delete_uda"
       /\ \/ \E k \in UdaInputs : DeleteUda(t, h, l, "", k)
          \/ \E ns \in UdaInputs : DeleteUda(t, h, l, ns, "")
    \/ /\ last'.op = "set_status"
       /\ \E st \in UnknownStatuses : SetStatus(t, h, l, st)
    \/ /\ last'.op = "set_due"
       /\ \E dt \in MalformedDates : SetDue(t, h, l, dt)
    \/ /\ last'.op = "set_entry"
       /\ \E dt \in MalformedDates : SetEntry(t, h, l, dt)

\* C5 as stated: a method of a confined object called from another thread
\* than the object's fails with ThreadError whatever its arguments are, and
\* changes nothing.  Stated for Task#set_description
C5_ForeignCallAlwaysThreadError ==
    [][\A t \in Threads, h \in Handles, l \in Logs, d \in TextInputs :
          (last'.op = "set_description" /\ SetDescription(t, h, l, d)
             /\ t # handles[h].owner)
              => (last'.result = ThreadError /\ HandleAndLogUnchanged
                    /\ storage' = storage)]_vars

\* C6 as stated: every Task mutator given invalid input fails with
\* ValidationError and leaves the handle and the log unchanged
C6_InvalidInputValidationError ==
    [][\A t \in Threads, h \in Handles, l \in Logs :
          InvalidMutatorCall(t, h, l)
              => (last'.result = ValidationError /\ HandleAndLogUnchanged)]_vars

\* C6: a Task mutator given invalid input leaves the handle's snapshot and
\* the log unchanged; it fails with ValidationError when called on the
\* handle's thread, and with ValidationError or ThreadError on another one
C6_InvalidInputRejected ==
    [][\A t \in Threads, h \in Handles, l \in Logs :
          InvalidMutatorCall(t, h, l)
              => /\ HandleAndLogUnchanged
                 /\ last'.result \in {ValidationError, ThreadError}
                 /\ (t = handles[h].owner => last'.result = ValidationError)]_vars

\* set_status has just been refused for its argument, with a record already
\* in the log and a description in the snapshot
C6_Witness ==
    /\ last.op = "set_status"
    /\ last.result = ValidationError
    /\ Len(logs["l1"].ops) = 1
    /\ Task_description(handles["h1"]) = "a"

\* the step appended one Update record for property p of handle h to log l:
\* the old records are the prefix, the record carries the handle's uuid, the
\* property, the snapshot's previous value and its new value
AppendsOneUpdate(h, l, p) ==
    LET old == logs[l].ops
        new == logs'[l].ops
    IN  /\ Len(new) = Len(old) + 1
        /\ SubSeq(new, 1, Len(old)) = old
        /\ new[Len(new)].type = "Update"
        /\ new[Len(new)].uuid = handles[h].uuid
        /\ new[Len(new)].property = p
        /\ new[Len(new)].old_value = MapGet(handles[h].data, p)
        /\ new[Len(new)].value = MapGet(handles'[h].data, p)
        /\ \A k \in Logs \ {l} : logs'[k] = logs[k]

\* C7: a successful property write appends exactly one Update record at the
\* end of the supplied log, the earlier records staying as its prefix; the
\* record has the handle's uuid, the property, the previous snapshot value
\* as old_value and the value written as value
C7_WriteAppendsOneUpdate ==
    [][\A t \in Threads, h \in Handles, l \in Logs :
          /\ \A p \in PropertyInputs, v \in ValueInputs :
                (/\ last'.op \in {"set_value", "TaskData.update"}
                 /\ last'.result = Ok
                 /\ (SetValue(t, h, l, p, v) \/ TaskDataUpdate(t, h, l, p, v)))
                  => /\ AppendsOneUpdate(h, l, p)
                     /\ logs'[l].ops[Len(logs'[l].ops)].value
                          = (IF is_nil(v) THEN Nil ELSE Value_to_string(v))
          /\ \A d \in TextInputs :
                (last'.op = "set_description" /\ last'.result = Ok /\ SetDescription(t, h, l, d))
                  => /\ AppendsOneUpdate(h, l, "description")
                     /\ logs'[l].ops[Len(logs'[l].ops)].value = d
          /\ \A d \in TextInputs :
                (last'.op = "set_priority" /\ last'.result = Ok /\ SetPriority(t, h, l, d))
                  => /\ AppendsOneUpdate(h, l, "priority")
                     /\ logs'[l].ops[Len(logs'[l].ops)].value = d
          /\ \A st \in StatusInputs :
                (last'.op = "set_status" /\ last'.result = Ok /\ SetStatus(t, h, l, st))
                  => AppendsOneUpdate(h, l, "status")
          /\ \A ns \in UdaInputs, k \in UdaInputs :
                (last'.op = "set_uda" /\ last'.result = Ok /\ SetUda(t, h, l, ns, k, "a"))
                  => /\ AppendsOneUpdate(h, l, UdaKey(ns, k))
                     /\ logs'[l].ops[Len(logs'[l].ops)].value = "a"]_vars

\* two writes of the same property were made one after the other: the log
\* holds their records in that order, the second with the first's value as
\* old_value
C7_Witness ==
    /\ last.op = "set_value"
    /\ last.result = Ok
    /\ Len(logs["l1"].ops) = 2
    /\ logs["l1"].ops[1].property = "x"
    /\ logs["l1"].ops[1].value = "a"
    /\ logs["l1"].ops[2].property = "x"
    /\ logs["l1"].ops[2].old_value = "a"
    /\ logs["l1"].ops[2].value = "7"

\* C8 as stated: after a successful mutator the handle's reads give the
\* value passed: description() == d, get_value(p) == v, has_tag?(t)
C8_ReadsGiveArgument ==
    [][\A t \in Threads, h \in Handles, l \in Logs :
          /\ \A d \in TextInputs :
                (last'.op = "set_description" /\ last'.result = Ok /\ SetDescription(t, h, l, d))
                  => Task_description(handles'[h]) = d
          /\ \A p \in PropertyInputs, v \in ValueInputs :
                (last'.op = "set_value" /\ last'.result = Ok /\ SetValue(t, h, l, p, v))
                  => Task_get_value(handles'[h], p) = v
          /\ \A tag \in TagInputs :
                (last'.op = "add_tag" /\ last'.result = Ok /\ AddTag(t, h, l, tag))
                  => Task_has_tag(handles'[h], tag)]_vars

\* C8: after a successful mutator the handle's reads reflect the write at
\* once: description() == d, has_tag?(t) is true, and get_value(p) is nil
\* for a nil v and otherwise the String v.to_s
C8_ReadsReflectWrite ==
    [][\A t \in Threads, h \in Handles, l \in Logs :
          /\ \A d \in TextInputs :
                (last'.op = "set_description" /\ last'.result = Ok /\ SetDescription(t, h, l, d))
                  => Task_description(handles'[h]) = d
          /\ \A p \in PropertyInputs, v \in ValueInputs :
                (last'.op = "set_value" /\ last'.result = Ok /\ SetValue(t, h, l, p, v))
                  => Task_get_value(handles'[h], p)
                       = (IF is_nil(v) THEN RNil ELSE RString(Value_to_string(v)))
          /\ \A tag \in TagInputs :
                (last'.op = "add_tag" /\ last'.result = Ok /\ AddTag(t, h, l, tag))
                  => Task_has_tag(handles'[h], tag)]_vars

\* a description with a leading blank has just been written and is read
\* back as it was passed
C8_Witness ==
    /\ last.op = "set_description"
    /\ last.result = Ok
    /\ Task_description(handles["h1"]) = " b"
    /\ storage["u1"] = EmptyMap


----------------------------------------------------------------------------
(* Properties of create_task (Spec) *)

\* C11 as stated: whenever create_task returns a Task handle, a Create
\* record for that uuid has been appended to the supplied log; a record that
\* cannot be appended makes the call fail
C11_HandleImpliesCreateRecord ==
    [][\A t \in Threads, u \in UuidInputs, l \in Logs, h \in Handles :
          (last'.op = "create_task" /\ last'.result = Ok /\ CreateTask(t, u, l, h))
              => logs'[l].ops = Append(logs[l].ops, OpCreate(uuid2tc(u).uuid))]_vars

\* C12: create_task for a uuid whose task exists in the replica fails,
\* appends nothing to the log, changes nothing in storage and gives no handle
C12_ExistingUuidRefused ==
    [][\A t \in Threads, u \in UuidInputs, l \in Logs, h \in Handles :
          (/\ last'.op = "create_task"
           /\ CreateTask(t, u, l, h)
           /\ uuid2tc(u).res = Ok
           /\ uuid2tc(u).uuid \in DOMAIN storage)
              => /\ last'.result # Ok
                 /\ logs' = logs
                 /\ storage' = storage
                 /\ handles' = handles]_vars

\* the engine has just refused a create_task for the committed task u1,
\* called on the replica's thread with a log of that thread
C12_Witness ==
    /\ last.op = "create_task"
    /\ last.result = "Error"
    /\ "u1" \in DOMAIN storage
    /\ logs["l1"].owner = ReplicaThread



----------------------------------------------------------------------------
(* Properties of the calls in flight (SpecRep) *)

\* the records applied so far come call by call: between two records of one
\* call there is no record of another
AppliedCallByCall(applied) ==
    \A i \in 1..Len(applied), k \in 1..Len(applied) :
        (i < k /\ applied[i] = applied[k])
            => \A j \in i..k : applied[j] = applied[i]

\* C13: at most one call holds the Replica's engine handle at any moment, in
\* every interleaving of the threads' steps; only the constructing thread
\* ever passes the guard; and the records of two commit_operations calls are
\* never interleaved
C13_OneCallInFlight ==
    /\ Cardinality({t \in Threads : flight.pc[t] = "holding"}) <= 1
    /\ \A t \in Threads :
          flight.pc[t] \in {"checked", "read", "holding"}
              => t = ReplicaThread
    /\ \A t \in Threads : flight.pc[t] = "holding" => flight.writer
    /\ AppliedCallByCall(flight.applied)

\* the replica's thread is in the middle of its second commit, the records
\* of the first applied before it, while the other thread has a call under way
C13_Witness ==
    /\ flight.pc["t1"] = "holding"
    /\ flight.calls["t1"] = 2
    /\ flight.todo["t1"] # <<>>
    /\ Len(flight.applied) = 3
    /\ flight.pc["t2"] = "called"



----------------------------------------------------------------------------
(* Properties of the Operation records (SpecOp) *)

\* the accessors that answer only for some variants
VariantAccessors ==
    {"uuid", "old_task", "property", "timestamp", "old_value", "value"}

\* the variants an accessor belongs to
OwnVariant(accessor, type) ==
    CASE accessor = "uuid" -> type # "UndoPoint"
      [] accessor = "old_task" -> type = "Delete"
      [] OTHER -> type = "Update"

\* C14: a variant-specific accessor succeeds exactly on its own variant
\* (property, timestamp, old_value and value on an Update, old_task on a
\* Delete, uuid on anything but an UndoPoint), and every other call fails
\* with a ValidationError and returns no value
C14_AccessorsFailWithValidationError ==
    last.op \in VariantAccessors
        => /\ (last.result = Ok) <=> OwnVariant(last.op, rec.op.type)
           /\ last.result # Ok
                => (last.result = ValidationError /\ last.out = Nil)

\* C15 as stated: for a well-formed uuid and timestamp Operation.update
\* gives an Update record whose uuid, property, old_value and value
\* accessors return exactly the arguments passed
C15_UpdateAccessorsReturnArguments ==
    /\ \A u \in UuidInputs, p \in PropertyInputs, ts \in StampInputs,
          o \in OptionInputs, v \in OptionInputs :
          (uuid2tc(u).res = Ok /\ ruby_to_datetime(ts).res = Ok)
              => /\ Operation_update(u, p, ts, o, v).res = Ok
                 /\ Operation_update_op(Operation_update(u, p, ts, o, v).op)
    /\ rec.op.type = "Update"
          => /\ rec.op = Operation_update(rec.args.uuid, rec.args.property,
                                          rec.args.timestamp, rec.args.old_value,
                                          rec.args.value).op
             /\ last.op = "update?" => last.out = TRUE
             /\ last.op = "uuid"
                  => (last.result = Ok /\ last.out = rec.args.uuid)
             /\ last.op = "property"
                  => (last.result = Ok /\ last.out = rec.args.property)
             /\ last.op = "old_value"
                  => (last.result = Ok /\ last.out = rec.args.old_value)
             /\ last.op = "value"
                  => (last.result = Ok /\ last.out = rec.args.value)

\* C15: for a well-formed uuid and timestamp Operation.update gives an
\* Update record; update? is true, property, old_value and value return
\* exactly the arguments passed (nil stays nil), and uuid returns the
\* canonical text of the uuid passed
C15_UpdateAccessorsReturnCanonical ==
    /\ \A u \in UuidInputs, p \in PropertyInputs, ts \in StampInputs,
          o \in OptionInputs, v \in OptionInputs :
          (uuid2tc(u).res = Ok /\ ruby_to_datetime(ts).res = Ok)
              => /\ Operation_update(u, p, ts, o, v).res = Ok
                 /\ Operation_update_op(Operation_update(u, p, ts, o, v).op)
    /\ rec.op.type = "Update"
          => /\ rec.op = Operation_update(rec.args.uuid, rec.args.property,
                                          rec.args.timestamp, rec.args.old_value,
                                          rec.args.value).op
             /\ last.op = "update?" => last.out = TRUE
             /\ last.op = "uuid"
                  => (last.result = Ok /\ last.out = uuid2tc(rec.args.uuid).uuid)
             /\ last.op = "property"
                  => (last.result = Ok /\ last.out = rec.args.property)
             /\ last.op = "old_value"
                  => (last.result = Ok /\ last.out = rec.args.old_value)
             /\ last.op = "value"
                  => (last.result = Ok /\ last.out = rec.args.value)

\* an Update built from the upper-case uuid, with no old value, answers uuid
\* with the lower-case text
C15_Witness ==
    /\ rec.op.type = "Update"
    /\ rec.args.uuid = "U1"
    /\ rec.args.old_value = RNil
    /\ rec.args.value = RString("a")
    /\ last.op = "uuid"
    /\ last.out = "u1"



----------------------------------------------------------------------------
(* Properties of the Operations log (SpecLog, Spec) *)

\* C16: get with a negative index counts from the end: on a log of n
\* records get(-k) for 1 <= k <= n returns the record get(n-k) returns; an
\* index i >= n or i < -n returns nil and does not fail; get never changes
\* the log
C16_NegativeIndexFromEnd ==
    [][\A t \in Threads, l \in Logs, i \in IndexInputs :
          (last'.op = "get" /\ Get(t, l, i))
              => LET n == Len(logs[l].ops)
                 IN  /\ logs' = logs
                     /\ t = logs[l].owner
                          => /\ last'.result = Ok
                             /\ (i >= n \/ i < 0 - n) => last'.out = RNil
                             /\ (0 - n <= i /\ i < 0)
                                  => /\ last'.out = Operations_get(logs[l], t, n + i).out
                                     /\ last'.out = logs[l].ops[n + i + 1]
                             /\ (0 <= i /\ i < n)
                                  => last'.out = logs[l].ops[i + 1]]_vars

\* get(-2) on a log of two different records has returned the first of them
C16_Witness ==
    /\ last.op = "get"
    /\ last.result = Ok
    /\ last.index = 0 - 2
    /\ Len(logs["l1"].ops) = 2
    /\ logs["l1"].ops[1] # logs["l1"].ops[2]
    /\ last.out = logs["l1"].ops[1]

\* what a successful push of op to a log of n records must leave: n + 1
\* records, op at index n, the records at 0..n-1 as they were
Appended(before, after, t, op) ==
    LET n == Len(before.ops)
    IN  /\ after.ops = Append(before.ops, op)
        /\ Operations_len(after, t).out = n + 1
        /\ Operations_get(after, t, n).out = op
        /\ \A i \in 0..(n - 1) :
              Operations_get(after, t, i).out = Operations_get(before, t, i).out

C18_ClearEmptiesWithoutCommit ==
    [][\A t \in Threads, l \in Logs :
          (last'.op = "clear" /\ Clear(t, l))
              => /\ storage' = storage
                 /\ handles' = handles
                 /\ (t = logs[l].owner /\ logs[l].readers = 0) => last'.result = Ok
                 /\ last'.result = Ok
                      => /\ Operations_len(logs'[l], t).out = 0
                         /\ Operations_empty(logs'[l], t).out = TRUE]_vars

\* a clear has discarded the records of a handle whose snapshot differs from
\* what storage holds
C18_Witness ==
    /\ last.op = "clear"
    /\ last.result = Ok
    /\ logs["l1"].ops = <<>>
    /\ \E h \in Handles :
          /\ handles[h].kind # "none"
          /\ handles[h].uuid \notin DOMAIN storage

\* C19: to_a, each without a block and an each with a block that returns
\* all give exactly the log's records in the order they were pushed, the
\* same every time, and none of them changes the log
C19_IterationInOrder ==
    [][/\ \A t \in Threads, l \in Logs :
             (last'.op = "to_a" /\ ToA(t, l))
                 => /\ logs' = logs
                    /\ t = logs[l].owner
                         => (last'.result = Ok /\ last'.out = logs[l].ops)
       /\ \A t \in Threads, l \in Logs :
             (last'.op = "each_entry" /\ EachNoBlock(t, l))
                 => /\ logs' = logs
                    /\ t = logs[l].owner
                         => (last'.result = Ok /\ last'.out = logs[l].ops)
       /\ \A t \in Threads, l \in Logs :
             (last'.op = "each" /\ last'.result = Ok
              /\ (EachBegin(t, l) \/ EachEnd(t, l)))
                 => /\ logs'[l].ops = logs[l].ops
                    /\ last'.out = logs[l].ops
                    /\ last'.out = Operations_to_array(logs'[l], t).out
       /\ \A l \in Logs :
             (iter.active /\ EachVisit(l))
                 => /\ logs' = logs
                    /\ iter'.seen = SubSeq(logs[l].ops, 1, Len(iter'.seen))]_vars

\* an each with a block has returned after visiting two different records
C19_Witness ==
    /\ last.op = "each"
    /\ last.result = Ok
    /\ Len(last.out) = 2
    /\ last.out[1] # last.out[2]
    /\ last.out = logs["l1"].ops

\* a push or clear issued while an each iteration is in progress fails and
\* leaves the records as they were when the iteration started
RefusedInBlock ==
    /\ \A t \in Threads, l \in Logs, op \in PushInputs :
          (iter.active /\ last'.op = "push" /\ Push(t, l, op))
              => /\ last'.result # Ok
                 /\ logs'[l].ops = iter.start
    /\ \A t \in Threads, l \in Logs :
          (iter.active /\ last'.op = "clear" /\ Clear(t, l))
              => /\ last'.result # Ok
                 /\ logs'[l].ops = iter.start

\* C20 as stated: a push or clear from the block does not change the
\* sequence iterated, and every iteration visits exactly the records
\* present when it started
C20_IterationVisitsAll ==
    [][/\ RefusedInBlock
       /\ \A t \in Threads, l \in Logs :
             (last'.op = "each" /\ iter.active
              /\ (EachEnd(t, l) \/ EachAbort(t, l)))
                 => last'.out = iter.start]_vars

\* C20: a push or clear from the block fails and does not change the
\* sequence iterated; an each that returns has visited exactly the records
\* present when it started, and one ended by the failure leaving the block
\* has visited the first of them, in order
C20_NoMutationWhileIterating ==
    [][/\ RefusedInBlock
       /\ \A t \in Threads, l \in Logs :
             (last'.op = "each" /\ iter.active /\ EachEnd(t, l))
                 => last'.out = iter.start
       /\ \A t \in Threads, l \in Logs :
             (last'.op = "each" /\ iter.active /\ EachAbort(t, l))
                 => /\ last'.result # Ok
                    /\ last'.out = SubSeq(iter.start, 1, Len(last'.out))
                    /\ logs'[l].ops = iter.start]_vars

\* a push or clear from the block has failed on a log of two records, which
\* are still there, and the iteration goes on
C20_Witness ==
    /\ iter.active
    /\ last.op \in {"push", "clear"}
    /\ last.result = Panic
    /\ Len(iter.start) = 2
    /\ logs["l1"].ops = iter.start

----------------------------------------------------------------------------
(* Properties of re-entrant access (SpecTB) *)

\* C21: a get or get_mut made on the owning thread while another access of
\* that thread is still outstanding succeeds: it neither fails nor aborts
C21_ReentrantAccessSucceeds ==
    [][\A t \in Threads :
          (/\ last'.op \in {"get", "get_mut"}
           /\ TBGet(t) \/ TBGetMut(t)
           /\ t = tb.thread_id
           /\ tb.readers > 0 \/ tb.writer)
              => last'.result = Ok]_vars

(* Properties of the read-only Task accessors (SpecRead) *)
\* C22: a read-only accessor of a Task changes no handle's snapshot, no log and
\* not the storage, and on the owning thread it does not fail
C22_ReadersChangeNothing ==
    [][\A t \in Threads, h \in Handles, name \in ReadNames :
          (last'.op = name /\ ReadTask(t, h, name, "x"))
              => /\ handles' = handles
                 /\ logs' = logs
                 /\ storage' = storage
                 /\ (t = handles[h].owner => last'.result = Ok)]_vars

\* a status read answered on a handle whose snapshot was edited through a log
\* that still holds the edit
C22_Witness ==
    /\ last.op = "status"
    /\ last.result = Ok
    /\ \E h \in Handles : IsTask(h) /\ "status" \in DOMAIN handles[h].data
    /\ \E l \in Logs : Len(logs[l].ops) > 0

C30_QueriesReturnCurrentData ==
    [][/\ \A t \in Threads, u \in UuidInputs, h \in Handles :
            (last'.op = "task" /\ GetTask(t, u, h) /\ last'.result = Ok)
                => IF uuid2tc(u).uuid \in DOMAIN storage
                   THEN /\ handles'[h].kind = "Task"
                        /\ handles'[h].data = storage[uuid2tc(u).uuid]
                   ELSE handles' = handles
       /\ \A t \in Threads, u \in UuidInputs :
            (last'.op = "task_data" /\ GetTaskData(t, u) /\ last'.result = Ok)
                => IF uuid2tc(u).uuid \in DOMAIN storage
                   THEN last'.out # RNil
                   ELSE last'.out = RNil]_vars

(* Properties of the classification of engine failures (SpecErr) *)

\* msg contains one of the keywords
Has(msg, keywords) == \E kw \in keywords : Contains(msg, kw)

\* a failure with message msg was classified by the keyword table whose
\* Storage, Sync, Config and Validation keywords are ks, ky, kc and kv
ClassifiedBy(ks, ky, kc, kv) ==
    last.op = "into_error" =>
        LET msg == last.out
        IN  /\ Has(msg, ks) => last.result = StorageError
            /\ ~Has(msg, ks) /\ Has(msg, ky) => last.result = "SyncError"
            /\ ~Has(msg, ks \cup ky) /\ Has(msg, kc) => last.result = "ConfigError"
            /\ ~Has(msg, ks \cup ky \cup kc) /\ Has(msg, kv)
                   => last.result = ValidationError
            /\ ~Has(msg, ks \cup ky \cup kc \cup kv) => last.result = "Error"

\* C26 as stated: "storage", "database" or "permission" gives StorageError;
\* otherwise "sync", "server" or "network" gives SyncError; otherwise "config"
\* gives ConfigError; otherwise "invalid", "parse" or "format" gives
\* ValidationError; any other message gives the generic Error
C26_KeywordTableAsStated ==
    ClassifiedBy({"storage", "database", "permission"},
                 {"sync", "server", "network"},
                 {"config"},
                 {"invalid", "parse", "format"})

\* C26 amended: "No such file", "Permission denied", "storage" or "database"
\* gives StorageError; otherwise "sync", "server", "network" or "remote" gives
\* SyncError; otherwise "config" gives ConfigError; otherwise "invalid",
\* "parse", "format" or "validation" gives ValidationError; any other message,
\* one with lower-case "permission" included, gives the generic Error
C26_KeywordTable ==
    ClassifiedBy({"No such file", "Permission denied", "storage", "database"},
                 {"sync", "server", "network", "remote"},
                 {"config"},
                 {"invalid", "parse", "format", "validation"})

\* a message whose only keyword-like word is lower-case "permission" was
\* classified generic
C26_Witness ==
    /\ last.op = "into_error"
    /\ last.out = "permission oops"
    /\ last.result = "Error"

\* the categories in branch order, each with the keywords of its branch
Branches ==
    <<[class |-> StorageError,
       keywords |-> {"No such file", "Permission denied", "storage", "database"}],
      [class |-> "SyncError",
       keywords |-> {"sync", "server", "network", "remote"}],
      [class |-> "ConfigError", keywords |-> {"config"}],
      [class |-> ValidationError,
       keywords |-> {"invalid", "parse", "format", "validation"}]>>

\* C27: every failure gets exactly one of the five categories, and a message
\* with keywords of a branch gets the category of that branch or of an earlier
\* one, never of a later one and never the generic Error; so "invalid" together
\* with "config", and no keyword of the two branches before, gives ConfigError
C27_FirstBranchWins ==
    last.op = "into_error" =>
        /\ last.result \in {Branches[i].class : i \in 1..4} \cup {"Error"}
        /\ \A i \in 1..4 :
              Has(last.out, Branches[i].keywords)
                  => last.result \in {Branches[j].class : j \in 1..i}
        /\ (/\ Contains(last.out, "invalid") /\ Contains(last.out, "config")
            /\ ~Has(last.out, Branches[1].keywords \cup Branches[2].keywords))
              => last.result = "ConfigError"

\* a message with both "invalid" and "config" was classified ConfigError
C27_Witness ==
    /\ last.op = "into_error"
    /\ last.out = "invalid config"
    /\ last.result = "ConfigError"

(* Properties of a mutator given a log of another thread (SpecForeign) *)

\* a mutator of handle h is called by thread t with log l, whatever its
\* other arguments are
MutatorCall(t, h, l) ==
    \/ /\ last'.op = "set_description"
       /\ \E d \in TextInputs : SetDescription(t, h, l, d)
    \/ /\ last'.op = "set_priority"
       /\ \E d \in TextInputs : SetPriority(t, h, l, d)
    \/ /\ last'.op = "add_annotation"
       /\ \E d \in TextInputs : AddAnnotation(t, h, l, d)
    \/ /\ last'.op = "add_tag"
       /\ \E tag \in TagInputs : AddTag(t, h, l, tag)
    \/ /\ last'.op = "set_value"
       /\ \E p \in PropertyInputs, v \in ValueInputs : SetValue(t, h, l, p, v)
    \/ /\ last'.op = "set_timestamp"
       /\ \E p \in PropertyInputs, dt \in DateInputs : SetTimestamp(t, h, l, p, dt)
    \/ /\ last'.op = "set_uda"
       /\ \E ns \in UdaInputs, k \in UdaInputs : SetUda(t, h, l, ns, k, "a")
    \/ /\ last'.op = "delete_uda"
       /\ \E ns \in UdaInputs, k \in UdaInputs : DeleteUda(t, h, l, ns, k)
    \/ /\ last'.op = "set_status"
       /\ \E st \in StatusInputs : SetStatus(t, h, l, st)
    \/ /\ last'.op = "set_due"
       /\ \E dt \in DateInputs : SetDue(t, h, l, dt)
    \/ /\ last'.op = "set_entry"
       /\ \E dt \in DateInputs : SetEntry(t, h, l, dt)
    \/ /\ last'.op = "TaskData.update"
       /\ \E p \in PropertyInputs, v \in ValueInputs : TaskDataUpdate(t, h, l, p, v)

\* a mutator of handle h is called by thread t with log l and with other
\* arguments the method accepts
ValidMutatorCall(t, h, l) ==
    \/ /\ last'.op = "set_description"
       /\ \E d \in TextInputs \ BlankTexts : SetDescription(t, h, l, d)
    \/ /\ last'.op = "set_priority"
       /\ \E d \in TextInputs \ BlankTexts : SetPriority(t, h, l, d)
    \/ /\ last'.op = "add_annotation"
       /\ \E d \in TextInputs \ BlankTexts : AddAnnotation(t, h, l, d)
    \/ /\ last'.op = "add_tag"
       /\ \E tag \in TagInputs : AddTag(t, h, l, tag)
    \/ /\ last'.op = "set_value"
       /\ \E v \in ValueInputs : SetValue(t, h, l, "x", v)
    \/ /\ last'.op = "set_timestamp"
       /\ \E dt \in DateInputs \ MalformedDates : SetTimestamp(t, h, l, "x", dt)
    \/ /\ last'.op = "set_uda"
       /\ SetUda(t, h, l, "n", "n", "a")
    \/ /\ last'.op = "delete_uda"
       /\ DeleteUda(t, h, l, "n", "n")
    \/ /\ last'.op = "set_status"
       /\ \E st \in StatusInputs \ UnknownStatuses : SetStatus(t, h, l, st)
    \/ /\ last'.op = "set_due"
       /\ \E dt \in DateInputs \ MalformedDates : SetDue(t, h, l, dt)
    \/ /\ last'.op = "set_entry"
       /\ \E dt \in DateInputs \ MalformedDates : SetEntry(t, h, l, dt)
    \/ /\ last'.op = "TaskData.update"
       /\ \E v \in ValueInputs : TaskDataUpdate(t, h, l, "x", v)

\* C29 as stated: a Task or TaskData mutator called on the handle's thread
\* with a log of another thread fails with ThreadError and leaves the
\* handle's snapshot and the log unchanged
C29_ForeignLogThreadError ==
    [][\A t \in Threads, h \in Handles, l \in Logs :
          (t = handles[h].owner /\ t # logs[l].owner /\ MutatorCall(t, h, l))
              => (last'.result = ThreadError /\ HandleAndLogUnchanged)]_vars

\* C29 amended: a Task or TaskData mutator called on the handle's thread with
\* a log of another thread leaves the handle's snapshot and the log unchanged
\* and fails: with ThreadError when its other arguments are valid, and with
\* ValidationError or ThreadError when they are not
C29_ForeignLogRefused ==
    [][\A t \in Threads, h \in Handles, l \in Logs :
          /\ (t = handles[h].owner /\ t # logs[l].owner /\ MutatorCall(t, h, l))
                => /\ HandleAndLogUnchanged
                   /\ last'.result \in {ThreadError, ValidationError}
          /\ (t = handles[h].owner /\ t # logs[l].owner /\ ValidMutatorCall(t, h, l))
                => last'.result = ThreadError]_vars

\* add_annotation was refused with ThreadError after it had taken a counter
\* value, which it does on the handle's thread only: the log is another
\* thread's, and the Task's snapshot and the log are as they were created
C29_Witness ==
    /\ last.op = "add_annotation"
    /\ last.result = ThreadError
    /\ ann = 1
    /\ handles["h1"].owner # logs["l1"].owner
    /\ handles["h1"].data = EmptyMap
    /\ logs["l1"].ops = <<>>

(* Properties of the annotation timestamps (SpecAnn) *)

\* the log's record at position i was appended by a successful add_annotation
IsAnnotation(ops, i) ==
    /\ ops[i].type = "Update"
    /\ ops[i].property \in {AnnotationKey(e) : e \in 0..(MaxClock + MaxAnnotations)}
    /\ ops[i].value # Nil

\* C28: any two successful add_annotation calls, on any handles and threads,
\* produce annotations whose entry timestamps differ at one-second resolution:
\* no two annotation records of a log carry the same entry second
C28_AnnotationEntriesDiffer ==
    \A l \in Logs : \A i, j \in 1..Len(logs[l].ops) :
        (i < j /\ IsAnnotation(logs[l].ops, i) /\ IsAnnotation(logs[l].ops, j))
            => logs[l].ops[i].property # logs[l].ops[j].property

(* Properties of the WorkingSet and the DependencyMap (SpecWS) *)

\* C24: a WorkingSet or DependencyMap a caller has obtained does not change:
\* whatever is done afterwards (mutations, commits, rebuild_working_set,
\* expire_tasks, the object's own methods, renumber included) leaves the object
\* as it was, so by_index, by_uuid, largest_index, dependencies and dependents
\* answer as before; only a new query yields another object
C24_ViewIsImmutable ==
    [][(/\ tb.inner.kind # "none"
        /\ ~(last'.op \in {"working_set", "dependency_map"} /\ last'.result = Ok))
          => /\ tb' = tb
             /\ \A i \in 0..(MaxIndex + 1) :
                   View_call(tb', tb.thread_id, "by_index", i)
                       = View_call(tb, tb.thread_id, "by_index", i)
             /\ \A name \in {"by_uuid", "dependencies", "dependents"}, u \in UuidInputs :
                   View_call(tb', tb.thread_id, name, u)
                       = View_call(tb, tb.thread_id, name, u)
             /\ View_call(tb', tb.thread_id, "largest_index", Nil)
                   = View_call(tb, tb.thread_id, "largest_index", Nil)
             /\ (last'.op = "renumber" => last'.result \in {RuntimeError, ThreadError})]_vars

\* the WorkingSet at hand still shows u1 at index 1 after u1 was removed from
\* the store and the working set was rebuilt
C24_Witness ==
    /\ tb.inner.kind = "WorkingSet"
    /\ tb.inner.by_index = <<"u1">>
    /\ "u1" \notin DOMAIN storage
    /\ last.op = "rebuild_working_set"
    /\ last.result = Ok

====
